---- MODULE Spec2Model ----
(***************************************************************************)
(* A model of two parts of CCI:                                            *)
(*                                                                         *)
(*  - the send side of the "sock" transport (core_sock_api.c): sock_connect,*)
(*    sock_sendv and the progress functions sock_progress_pending and      *)
(*    sock_progress_queued, run by application threads;                    *)
(*  - the receive side of the ccieth driver (ccieth_recv.c).               *)
(*                                                                         *)
(* The TAILQ lists are modelled at the level of their link fields          *)
(* (tqh_first, tqh_last, tqe_next, tqe_prev), because the code inserts a   *)
(* descriptor into a list while its link field still belongs to another.   *)
(***************************************************************************)
EXTENDS Integers, Sequences, FiniteSets, TLC

(***************************************************************************)
(* Bounds of the model.                                                    *)
(***************************************************************************)
\* most TX descriptors an endpoint has (ep->tx_buf_cnt, SOCK_EP_TX_CNT)
NumTx == 2
\* number of connection objects
MaxConns == 2
\* largest ep->tx_timeout (SOCK_EP_TX_TIMEOUT; core_sock.h, which defines the
\* SOCK_ constants, is not part of the sources)
MaxEpTimeout == 2
\* stands for SOCK_RESEND_TIME
SOCK_RESEND_TIME == 1
\* stands for SOCK_PROG_FREQ
SOCK_PROG_FREQ == 1
\* a walk over a list whose links form a cycle never ends: the model follows
\* it until a TX has been visited MaxCycles times
MaxCycles == 5
\* stands for SOCK_AM_SIZE, the max_send_size of a connection
SOCK_AM_SIZE == 1
SOCK_BLOCK_SIZE == 64
MaxIds == 3
MaxMissing == 1
\* no call that needs a TX is made once MaxIssued calls have obtained one
MaxIssued == 3
\* no unreliable send is called once MaxDirect datagrams have been written
\* by the unreliable path of sock_sendv
MaxDirect == 2

\* sizeof(sock_header_t) and sizeof(sock_seq_ack_t), in bytes
SockHeaderSize == 2
SockSeqAckSize == 2
\* largest byte of a message; sends packed into one TX buffer
MaxByte == 2
MaxPacked == 3

Threads == {1, 2}
TxIds == 1..NumTx
ConnIds == 1..MaxConns

NULL == 0

\* the widths of int ("1 << offset") and of uint64_t (a block of sep->ids)
IntBits == 32
WordBits == 64

(***************************************************************************)
(* cci.h: enum cci_conn_attribute and the send flags.                      *)
(***************************************************************************)
CCI_CONN_ATTR_RO == 0
CCI_CONN_ATTR_RU == 1
CCI_CONN_ATTR_UU == 2
Attributes == {CCI_CONN_ATTR_RO, CCI_CONN_ATTR_RU, CCI_CONN_ATTR_UU}

CCI_FLAG_BLOCKING == 1
CCI_FLAG_SILENT == 8
SendFlags == {0, CCI_FLAG_BLOCKING, CCI_FLAG_SILENT,
              CCI_FLAG_BLOCKING + CCI_FLAG_SILENT}

\* x & bit, for a one-bit mask
BitAnd(x, bit) == IF (x \div bit) % 2 = 1 THEN bit ELSE 0

\* connection->attribute & CCI_CONN_ATTR_RO || connection->attribute & CCI_CONN_ATTR_RU
\* CCI_CONN_ATTR_RO is 0, so the first operand is 0 for every attribute.
is_reliable(attribute) ==
    \/ FALSE                                     \* attribute & 0
    \/ BitAnd(attribute, CCI_CONN_ATTR_RU) # 0

(***************************************************************************)
(* TAILQ: a queue space q is [next, prev, last].  A location is a head     *)
(* (its tqh_first field) or a descriptor (its tqe_next field).             *)
(***************************************************************************)
IdleHead == -1
QueuedHead == -2
PendingHead == -3
EvtsHead == -4
Heads == {IdleHead, QueuedHead, PendingHead, EvtsHead}
Locs == Heads \cup TxIds

TAILQ_FIRST(q, head) == q.next[head]
TAILQ_EMPTY(q, head) == q.next[head] = NULL
TAILQ_NEXT(q, elm) == q.next[elm]

TAILQ_INSERT_TAIL(q, head, elm) ==
    LET q1 == [q EXCEPT !.next[elm] = NULL, !.prev[elm] = q.last[head]]
        q2 == [q1 EXCEPT !.next[q1.last[head]] = elm]
    IN  [q2 EXCEPT !.last[head] = elm]

TAILQ_INSERT_HEAD(q, head, elm) ==
    LET q1 == [q EXCEPT !.next[elm] = q.next[head]]
        q2 == IF q1.next[elm] # NULL
              THEN [q1 EXCEPT !.prev[q1.next[head]] = elm]
              ELSE [q1 EXCEPT !.last[head] = elm]
    IN  [q2 EXCEPT !.next[head] = elm, !.prev[elm] = head]

\* TAILQ_REMOVE writes through elm's tqe_prev: a NULL tqe_prev is a fault.
TAILQ_REMOVE(q, head, elm) ==
    LET q1 == IF q.next[elm] # NULL
              THEN [q EXCEPT !.prev[q.next[elm]] = q.prev[elm]]
              ELSE [q EXCEPT !.last[head] = q.prev[elm]]
    IN  [q1 EXCEPT !.next[q1.prev[elm]] = q1.next[elm]]

RECURSIVE WalkFrom(_, _, _)
WalkFrom(q, elm, n) ==
    IF elm = NULL \/ n = 0 THEN <<>>
    ELSE <<elm>> \o WalkFrom(q, q.next[elm], n - 1)

\* what TAILQ_FOREACH visits from head (cut after NumTx + 1 elements when the
\* links form a cycle)
ListOf(q, head) == WalkFrom(q, q.next[head], NumTx + 1)

\* an event queued in front of the others instead of behind them
MutQueueEventAtHead(q, x) == TAILQ_INSERT_HEAD(q, EvtsHead, x)

\* "TAILQ_INSERT_TAIL(&ep->evts, evt, entry)" under ep->lock
QueueEvent(q, x) == TAILQ_INSERT_TAIL(q, EvtsHead, x)

Range(s) == {s[i] : i \in DOMAIN s}
Occurrences(s, x) == Cardinality({i \in DOMAIN s : s[i] = x})

VARIABLES
    crashed,     \* "no", or the place where the process has faulted
    th,          \* per thread: position in the API call and its locals
    conns,       \* cci__conn_t / sock_conn_t objects allocated by sock_connect
    txs,         \* sock_tx_t descriptors and their embedded events
    dq,          \* the lists linked through tx->dentry: idle_txs, queued, pending
    eq,          \* the list linked through evt->entry: ep->evts
    sdev_lock,   \* sdev->lock
    ids,         \* sep->ids (the bits set) and, as history, the IDs handed out
    ep_tx_timeout, \* ep->tx_timeout
    wire,        \* datagrams handed to sendto(): how many, per TX
    nissued,     \* number of sends and connects that obtained a TX
    api,         \* a connection request event and a plugin offered to the core
    sglobals,    \* sglobals of the sock plugin: its devices and their count
    svc,         \* the sockets sock_bind has bound for the service, and its last call
    eth          \* state of the ccieth receive side

vars == <<crashed, th, conns, txs, dq, eq, sdev_lock, ids, ep_tx_timeout, wire, nissued, api, sglobals, svc, eth>>
sockvars == <<crashed, th, conns, txs, dq, eq, sdev_lock, ids, ep_tx_timeout, wire, nissued, api, sglobals, svc>>


(***************************************************************************)
(* Initial state: sock_init and sock_create_endpoint have run.             *)
(***************************************************************************)
\* The endpoint's pool of idle TX descriptors.  sock_create_endpoint sets
\* tx_buf_cnt and initialises idle_txs to the empty list; no code of the
\* plugin allocates a descriptor.  A pool of cnt > 0 descriptors is the
\* pre-allocated pool of the design (zeroed memory, linked on idle_txs).
RECURSIVE InitTxPool(_, _, _)
InitTxPool(q, n, cnt) ==
    IF n > cnt THEN q
    ELSE InitTxPool(TAILQ_INSERT_TAIL(q, IdleHead, n), n + 1, cnt)

\* every list as TAILQ_INIT leaves it
EmptyQueues ==
    [next |-> [l \in Locs |-> NULL],
     prev |-> [x \in TxIds |-> NULL],
     last |-> [h \in Heads |-> h]]

\* enq is history: the rank of the TX among the insertions into sdev->queued
NewTx ==
    [state |-> "IDLE", msg_type |-> "NONE", flags |-> 0, seq |-> 0,
     cycles |-> 0, resends |-> 0, conn |-> NULL, etype |-> "NONE",
     status |-> "SUCCESS", ctx |-> 0, enq |-> 0]

\* alloc: the object exists; established: the application holds the
\* connection and can send on it
NoConn ==
    [alloc |-> FALSE, established |-> FALSE, attribute |-> 0, tx_timeout |-> 0,
     seq |-> 0]

\* a connection as sock_connect sets it up (lines 576-599): zeroed memory,
\* the attribute, and "conn->tx_timeout = 0 by default"
NewConn(attribute) ==
    [alloc |-> TRUE, established |-> FALSE, attribute |-> attribute,
     tx_timeout |-> 0, seq |-> 0]

\* overrun: the header and the data the call is about to copy into the send
\* buffer are longer than the connection's max_send_size.
\* locks is history: the locks the thread held, in the order in which it
\* acquired them, at the point of its last step where it held most
IdleThread ==
    [pc |-> "idle", op |-> "none", conn |-> NULL, flags |-> 0,
     tx |-> NULL, cur |-> NULL, tmp |-> NULL, ret |-> "none", locks |-> <<>>,
     overrun |-> FALSE]

\* sent[x]: datagrams written from the buffer of TX x; late[x]: those of them
\* written when the TX had already been completed (or put back on the idle
\* list); direct: datagrams written by the unreliable path of sock_sendv;
\* buffer[x]: the bytes of the buffer of TX x (calloc'ed, so zero at first);
\* dgram[x]: the first tx->len bytes of it as the last send has packed them;
\* msg[x]: the user header and data of that send, and whether it was
\* reliable; packed: the sends packed so far
NoDatagrams ==
    [sent |-> [x \in TxIds |-> 0], late |-> [x \in TxIds |-> 0], direct |-> 0,
     buffer |-> [x \in TxIds |->
                   [i \in 1..(SockHeaderSize + SockSeqAckSize + SOCK_AM_SIZE) |->
                       <<"zero", 0, 0, 0>>]],
     dgram |-> [x \in TxIds |-> <<>>], msg |-> [x \in TxIds |-> <<>>],
     reliable |-> [x \in TxIds |-> FALSE], packed |-> 0]

SendTo(w, x, tx) ==
    [w EXCEPT !.sent[x] = @ + 1,
              !.late[x] = IF tx.state \in {"COMPLETED", "IDLE"} THEN @ + 1 ELSE @]

FreeLock == [owner |-> NULL, count |-> 0]

\* "1 << offset" is a shift of the int constant 1: by 31 it gives INT_MIN; by
\* 32 or more it is undefined, and a build gives the shift by offset mod 32
\* (the shift instruction takes the low five bits of the count) or gives 0
IntShiftOutcomes == {"wrap", "zero"}

\* sep->ids as calloc leaves it; given: the IDs sock_get_id has returned and
\* sock_put_id has not taken back; put: the IDs passed to sock_put_id;
\* shift: what the build makes of a shift by 32 or more
NoIds(shift) == [bits |-> {}, given |-> <<>>, put |-> <<>>, shift |-> shift]

\* The locks of the plugin: sdev->lock (the device's send queues), ep->lock
\* and sep->lock (the endpoint's event queue and its idle TXs), sconn->lock
\* (the connection's sequence numbers).
LockNames == {"sdev", "ep", "sep", "sconn"}

\* pthread_mutex_lock(lock) by a thread that holds the locks of held
MutAcquireOutOfOrder(held, lock) == <<lock>> \o held
Acquire(held, lock) == Append(held, lock)

\* No listening endpoint has a socket yet (lep->priv), sock_bind has not run.
NoBindCall == [port |-> 0, sock_driver |-> TRUE, ret |-> "none", sin_port |-> 0]
NoBinds == [priv |-> NULL, socks |-> <<>>, last |-> NoBindCall]


\* globals->devs, the devices of the configuration file: a sock device with
\* an "ip=" argument, one without, and a device of another driver.
GlobalDevs ==
    <<[driver |-> "sock", ip |-> 1], [driver |-> "sock", ip |-> 0],
      [driver |-> "eth", ip |-> 1]>>

\* sock_init, lines 151-155 and 160-214: a new sglobals whose devices are the
\* sock devices with an IP address, in the order of globals->devs.  inits is
\* history: the number of calls of sock_init so far.
SockGlobals(inits) ==
    LET Owned(d) == GlobalDevs[d].driver = "sock" /\ GlobalDevs[d].ip # 0
        devices == SelectSeq([d \in DOMAIN GlobalDevs |-> d], Owned)
    IN  [count |-> Len(devices), devices |-> devices, inits |-> inits]

\* One endpoint with tx_buf_cnt idle TX descriptors (none, as
\* sock_create_endpoint leaves the list, or a pool) and one established
\* connection with the given attribute.  A connection that sock_connect
\* creates is never handed to the application (sock_get_event returns no
\* event), so sends are made on the established one only.
SockInitWith(attribute, tx_buf_cnt, tx_timeout, shift) ==
    /\ crashed = "no"
    /\ th = [t \in Threads |-> IdleThread]
    /\ conns = [c \in ConnIds |->
                  IF c = 1 THEN [NewConn(attribute) EXCEPT !.established = TRUE]
                  ELSE NoConn]
    /\ txs = [x \in TxIds |-> NewTx]
    /\ dq = InitTxPool(EmptyQueues, 1, tx_buf_cnt)
    /\ ep_tx_timeout = tx_timeout
    /\ eq = EmptyQueues
    /\ sdev_lock = FreeLock
    /\ ids = NoIds(shift)
    /\ wire = NoDatagrams
    /\ nissued = 0
    /\ sglobals = SockGlobals(1)
    /\ svc = NoBinds

SockInit ==
    \E a \in Attributes, tx_buf_cnt \in 0..NumTx, tx_timeout \in 1..MaxEpTimeout :
        SockInitWith(a, tx_buf_cnt, tx_timeout, "wrap")

(***************************************************************************)
(* Helpers shared by sock_connect and sock_sendv.                          *)
(***************************************************************************)
\* Threads that are in no call are interchangeable: the next call is made by
\* the lowest-numbered of them.
MayCall(t) ==
    /\ th[t].pc = "idle"
    /\ \A u \in Threads : u < t => th[u].pc # "idle"

Return(t, status) ==
    [th EXCEPT ![t].pc = "ret", ![t].ret = status]

\* the locks thread t holds between two steps: sdev->lock, as often as it
\* has locked it; every other lock is released in the step that takes it
LocksHeld(t) ==
    [i \in 1..(IF sdev_lock.owner = t THEN sdev_lock.count ELSE 0) |-> "sdev"]

\* "get a tx": under sep->lock, take the first idle TX if there is one.
\* tx is an uninitialised local: with an empty idle list the test "if (!tx)"
\* reads an indeterminate value, which is NULL (CCI_ENOBUFS) or is not (the
\* descriptor is then written through a wild pointer).
NoIdleTx(t, site) ==
    /\ TAILQ_EMPTY(dq, IdleHead)
    /\ \E tx_is_null \in BOOLEAN :
          IF tx_is_null
          THEN /\ th' = [Return(t, "CCI_ENOBUFS") EXCEPT
                             ![t].locks = Acquire(LocksHeld(t), "sep")]
               /\ crashed' = crashed
          ELSE th' = th /\ crashed' = site

GetIdleTx(t, next_pc) ==
    /\ ~TAILQ_EMPTY(dq, IdleHead)
    /\ dq' = TAILQ_REMOVE(dq, IdleHead, TAILQ_FIRST(dq, IdleHead))
    /\ th' = [th EXCEPT ![t].tx = TAILQ_FIRST(dq, IdleHead), ![t].pc = next_pc,
                         ![t].locks = Acquire(LocksHeld(t), "sep")]
    /\ crashed' = crashed

\* the rank of the latest insertion into sdev->queued
LastEnqueued == CHOOSE n \in 0..MaxIssued :
    /\ \A y \in TxIds : txs[y].enq <= n
    /\ n = 0 \/ \E y \in TxIds : txs[y].enq = n

\* sdev->lock is free and t takes and releases it around one list insertion
Enqueue(t) ==
    /\ crashed = "no"
    /\ th[t].pc = "enqueue"
    /\ sdev_lock.owner = NULL
    /\ dq' = TAILQ_INSERT_TAIL(dq, QueuedHead, th[t].tx)
    /\ txs' = [txs EXCEPT ![th[t].tx].enq = LastEnqueued + 1]
    /\ th' = [th EXCEPT ![t].pc = "pp_lock",
                         ![t].locks = Acquire(LocksHeld(t), "sdev")]
    /\ UNCHANGED <<crashed, conns, eq, sdev_lock, ids, wire, nissued, ep_tx_timeout, api, sglobals, svc, eth>>

(***************************************************************************)
(* sock_get_id: a random ID whose bit is not yet set in sep->ids.          *)
(***************************************************************************)
RandomValues == {0, 1}

\* the values of random() tried for a sequence of calls: offsets below 31,
\* offset 31, offsets of 32 and above, and the first offset of the next block
IdRandomValues == {0, 1, 30, 31, 32, 33, 63, 64}

\* the bits of the 64-bit block that the int "1 << offset" selects once it has
\* been converted to uint64_t for "*b & ..." and "*b |= ...": the conversion
\* of a negative int extends its sign through bits 32..63
MaskBits(offset, outcome) ==
    LET count == IF offset < IntBits THEN offset ELSE offset % IntBits IN
    IF offset >= IntBits /\ outcome = "zero" THEN {}
    ELSE IF count = IntBits - 1 THEN (IntBits - 1)..(WordBits - 1)
    ELSE {count}

\* One iteration of the loop of sock_get_id with random() = n.  A bit of the
\* array is named by block * WordBits + its place in the block.  free: the
\* test "(*b & (1 << offset)) == 0" passes and the ID is returned.
sock_get_id(ep_ids, n) ==
    LET block == n \div SOCK_BLOCK_SIZE
        offset == n % SOCK_BLOCK_SIZE
        mask == {block * WordBits + bit : bit \in MaskBits(offset, ep_ids.shift)}
        id == (block * SOCK_BLOCK_SIZE) + offset
    IN  [free |-> ep_ids.bits \cap mask = {},
         ids |-> [ep_ids EXCEPT !.bits = @ \cup mask, !.given = Append(@, id)]]

\* a sequence without its i-th element
RemoveAt(seq, i) == SubSeq(seq, 1, i - 1) \o SubSeq(seq, i + 1, Len(seq))

\* sock_put_id, lines 528-542, for the i-th ID handed out.  passes: the value
\* of "(*b & (1 << offset)) == 1", which compares the masked block with the
\* number 1, i.e. with bit 0 alone.  "~(1 << offset)" is an int converted to
\* uint64_t: it keeps every bit that "1 << offset" does not select.
sock_put_id(ep_ids, i) ==
    LET id == ep_ids.given[i]
        block == id \div SOCK_BLOCK_SIZE
        offset == id % SOCK_BLOCK_SIZE
        mask == {block * WordBits + bit : bit \in MaskBits(offset, ep_ids.shift)}
    IN  [passes |-> ep_ids.bits \cap mask = {block * WordBits},
         ids |-> [ep_ids EXCEPT !.bits = @ \ mask, !.given = RemoveAt(@, i),
                                !.put = Append(@, id)],
         aborted |-> [ep_ids EXCEPT !.put = Append(@, id)]]

(***************************************************************************)
(* sock_connect                                                            *)
(***************************************************************************)
FreeConn == CHOOSE c \in ConnIds : ~conns[c].alloc /\ \A d \in ConnIds : d < c => conns[d].alloc

\* lines 576-616.  sconn is used before it is assigned ("sconn->status = ..."):
\* the stores go through an indeterminate pointer, which faults or lands in
\* memory the model does not track.
CallConnect(t, attribute, uri_ok) ==
    /\ crashed = "no"
    /\ MayCall(t)
    /\ nissued < MaxIssued
    /\ \E c \in ConnIds : ~conns[c].alloc
    /\ \E wild_store_faults \in BOOLEAN :
          IF wild_store_faults
          THEN crashed' = "sconn" /\ UNCHANGED <<th, conns>>
          ELSE /\ crashed' = crashed
               /\ IF uri_ok
                  THEN /\ conns' = [conns EXCEPT ![FreeConn] = NewConn(attribute)]
                       /\ th' = [th EXCEPT ![t] = [IdleThread EXCEPT
                                      !.pc = "cn_gettx", !.op = "connect",
                                      !.conn = FreeConn]]
                  ELSE \* sock_getaddrinfo failed: goto out, the connection is freed
                       /\ conns' = conns
                       /\ th' = [th EXCEPT ![t] = [IdleThread EXCEPT
                                      !.pc = "ret", !.op = "connect", !.ret = "CCI_EINVAL"]]
    /\ UNCHANGED <<txs, dq, eq, sdev_lock, ids, wire, nissued, ep_tx_timeout, api, sglobals, svc, eth>>

\* lines 624-633, no idle TX: CCI_ENOBUFS; the connection stays allocated
ConnectNoTx(t) ==
    /\ crashed = "no"
    /\ th[t].pc = "cn_gettx"
    /\ NoIdleTx(t, "sock_connect tx")
    /\ UNCHANGED <<conns, txs, dq, eq, sdev_lock, ids, wire, nissued, ep_tx_timeout, api, sglobals, svc, eth>>

\* lines 624-684: take a TX and fill it in.  The event is typed
\* CCI_EVENT_CONNECT_SUCCESS "for now"; tx->flags is not written and keeps the
\* value of the descriptor's last use.
ConnectGetTx(t) ==
    LET x == TAILQ_FIRST(dq, IdleHead) IN
    /\ crashed = "no"
    /\ th[t].pc = "cn_gettx"
    /\ GetIdleTx(t, "enqueue")
    /\ \E n \in RandomValues :
          /\ sock_get_id(ids, n).free
          /\ ids' = sock_get_id(ids, n).ids
    /\ txs' = [txs EXCEPT ![x] = [@ EXCEPT
                  !.msg_type = "CONN_REQUEST", !.etype = "CONNECT_SUCCESS",
                  !.conn = th[t].conn, !.ctx = nissued + 1, !.enq = 0,
                  !.cycles = 0, !.resends = 0,
                  !.state = "QUEUED"]]
    /\ nissued' = nissued + 1
    /\ UNCHANGED <<conns, eq, sdev_lock, wire, ep_tx_timeout, api, sglobals, svc, eth>>

(***************************************************************************)
(* sock_sendv                                                              *)
(***************************************************************************)
\* A uint32_t is kept as its two 16-bit halves, [hi, lo].
HalfBits == 16
Uint32(n) == [hi |-> n \div 2^HalfBits, lo |-> n % 2^HalfBits]
UINT_MAX == [hi |-> 2^HalfBits - 1, lo |-> 2^HalfBits - 1]

\* the header lengths and the sums of the segment lengths of the calls made
HeaderLens == {Uint32(0)}
\* with a header, and with one that makes header_len + data_len wrap (line 1084)
WideHeaderLens == {Uint32(1), UINT_MAX}
DataLens == {Uint32(n) : n \in 0..(SOCK_AM_SIZE + 1)}

\* a + b with the carry out of bit 31 kept: [carry, hi, lo]
AddWide(a, b) ==
    LET lo == a.lo + b.lo
        hi == a.hi + b.hi + (lo \div 2^HalfBits)
    IN  [carry |-> hi \div 2^HalfBits, hi |-> hi % 2^HalfBits, lo |-> lo % 2^HalfBits]

\* "header_len + data_len": header_len is a uint32_t and data_len an int, so
\* the sum is computed in unsigned int and the carry is lost
SendvTotal(header_len, data_len) ==
    [hi |-> AddWide(header_len, data_len).hi, lo |-> AddWide(header_len, data_len).lo]

\* a > n for a uint32_t a and a small n
GreaterThan(a, n) == a.hi > 0 \/ a.lo > n

\* lines 1078-1085, the checks of the arguments.  null_seg: some segment has
\* a NULL pointer and a non-zero length; data_len: the sum of the segment
\* lengths.  CCI_SUCCESS: the call goes on.
SendvCheck(header_len, data_len, null_seg) ==
    IF null_seg THEN "CCI_EINVAL"
    ELSE IF GreaterThan(SendvTotal(header_len, data_len), SOCK_AM_SIZE)
    THEN "CCI_EMSGSIZE"
    ELSE "CCI_SUCCESS"

\* lines 1078-1095.  On an unreliable connection a call whose lengths have
\* passed the check only because their sum wrapped goes straight to the
\* copies of lines 1113-1118, and a copy of 4 GB faults.
CallSendv(t, c, flags, header_len, data_len, null_seg) ==
    LET status == SendvCheck(header_len, data_len, null_seg)
        overrun == \/ AddWide(header_len, data_len).carry > 0
                   \/ GreaterThan(SendvTotal(header_len, data_len), SOCK_AM_SIZE)
    IN
    /\ crashed = "no"
    /\ MayCall(t)
    /\ nissued < MaxIssued
    /\ wire.direct < MaxDirect
    /\ conns[c].established
    /\ crashed' = IF status = "CCI_SUCCESS" /\ overrun
                      /\ ~is_reliable(conns[c].attribute)
                   THEN "memcpy" ELSE crashed
    /\ th' = [th EXCEPT ![t] =
          IF status # "CCI_SUCCESS"
          THEN [IdleThread EXCEPT !.pc = "ret", !.op = "sendv", !.ret = status]
          ELSE [IdleThread EXCEPT
                   !.pc = IF is_reliable(conns[c].attribute) THEN "sv_gettx" ELSE "sv_direct",
                   !.op = "sendv", !.conn = c, !.flags = flags,
                   !.overrun = overrun]]
    /\ UNCHANGED <<conns, txs, dq, eq, sdev_lock, ids, wire, nissued, ep_tx_timeout, api, sglobals, svc, eth>>

\* lines 1097-1131, "if unreliable, try to send".  The header is packed through
\* tx, which is not assigned yet: the stores fault or land in untracked memory.
\* The datagram written is the zeroed buffer.  sock_sendto returns the byte
\* count of the last sendto (or errno), never 0, so control always falls
\* through to "get a tx".
SendvDirect(t) ==
    /\ crashed = "no"
    /\ th[t].pc = "sv_direct"
    /\ \E wild_store_faults \in BOOLEAN :
          IF wild_store_faults
          THEN crashed' = "tx->buffer" /\ UNCHANGED <<th, wire>>
          ELSE /\ crashed' = crashed
               /\ wire' = [wire EXCEPT !.direct = @ + 1]
               /\ th' = [th EXCEPT ![t].pc = "sv_gettx"]
    /\ UNCHANGED <<conns, txs, dq, eq, sdev_lock, ids, nissued, ep_tx_timeout, api, sglobals, svc, eth>>

\* lines 1133-1142, no idle TX: CCI_ENOBUFS
SendvNoTx(t) ==
    /\ crashed = "no"
    /\ th[t].pc = "sv_gettx"
    /\ NoIdleTx(t, "sock_sendv tx")
    /\ UNCHANGED <<conns, txs, dq, eq, sdev_lock, ids, wire, nissued, ep_tx_timeout, api, sglobals, svc, eth>>

\* lines 1133-1165: take a TX; tx bookkeeping and the event.  tx->seq is not
\* written here and keeps the value of the descriptor's last use.
SendvGetTx(t) ==
    LET c == th[t].conn
        rel == is_reliable(conns[c].attribute)
        x == TAILQ_FIRST(dq, IdleHead)
    IN
    /\ crashed = "no"
    /\ th[t].pc = "sv_gettx"
    /\ GetIdleTx(t, IF rel THEN "sv_seq" ELSE "enqueue")
    /\ txs' = [txs EXCEPT ![x] = [@ EXCEPT
                  !.msg_type = "SEND", !.flags = th[t].flags,
                  !.etype = "SEND", !.conn = c, !.ctx = nissued + 1,
                  !.status = "SUCCESS", !.enq = 0,
                  !.cycles = 0, !.resends = 0,
                  !.state = "QUEUED"]]
    /\ nissued' = nissued + 1
    /\ UNCHANGED <<conns, eq, sdev_lock, ids, wire, ep_tx_timeout, api, sglobals, svc, eth>>

\* "tx->seq = sconn->seq++" between the lock and the unlock of sconn->lock
NextSeq(seq) == seq + 1

\* lines 1167-1180, "if reliable, add seq and ack": under sconn->lock the send
\* takes the connection's next sequence number.  Lines 1190-1199 then copy
\* the header and the segments into the buffer of the TX; a copy of 4 GB
\* (header_len + data_len wrapped) faults.
SendvSeq(t) ==
    LET c == th[t].conn
        x == th[t].tx
    IN
    /\ crashed = "no"
    /\ th[t].pc = "sv_seq"
    /\ crashed' = IF th[t].overrun THEN "memcpy" ELSE crashed
    /\ txs' = [txs EXCEPT ![x].seq = conns[c].seq]
    /\ conns' = [conns EXCEPT ![c].seq = NextSeq(@)]
    /\ th' = [th EXCEPT ![t].pc = "enqueue",
                         ![t].locks = Acquire(LocksHeld(t), "sconn")]
    /\ UNCHANGED <<dq, eq, sdev_lock, ids, wire, nissued, ep_tx_timeout, api, sglobals, svc, eth>>


(***************************************************************************)
(* sock_sendv: the bytes of the datagram.                                  *)
(***************************************************************************)
\* memcpy(buf + offset, bytes, Len(bytes)); offset counts from 0
Memcpy(buf, offset, bytes) ==
    [i \in DOMAIN buf |->
        IF i > offset /\ i <= offset + Len(bytes) THEN bytes[i - offset] ELSE buf[i]]

\* A byte is <<kind, ...>>: a zero byte, a byte of user header or data with
\* its value, or the i-th byte of one of the two headers.
\* sock_pack_send and sock_pack_seq_ack: the bytes of the two headers
HeaderBytes(header_len, data_len) ==
    [i \in 1..SockHeaderSize |-> <<"hdr", i, header_len, data_len>>]
SeqAckBytes == [i \in 1..SockSeqAckSize |-> <<"seq_ack", i, 0, 0>>]

\* user headers and data: every byte sequence up to max_send_size
RECURSIVE BytesUpTo(_)
BytesUpTo(n) ==
    IF n = 0 THEN {<<>>}
    ELSE BytesUpTo(n - 1)
         \cup {Append(b, <<"user", v, 0, 0>>) :
                    b \in {c \in BytesUpTo(n - 1) : Len(c) = n - 1},
                    v \in 1..MaxByte}

\* "ptr = hdr++": ptr gets the value hdr had, the start of the header
PtrPostIncrement(offset, size) == offset

\* lines 1158-1204.  The header is packed at the start of the buffer and
\* "ptr = hdr++" leaves ptr there; the seq/ack words are packed at ptr and
\* "ptr = sa++" leaves ptr there again; the user header and the data are
\* copied to ptr and behind.  tx->len counts all of them.
sock_pack(buffer, header, data, reliable) ==
    LET b1 == Memcpy(buffer, 0, HeaderBytes(Len(header), Len(data)))
        p1 == PtrPostIncrement(0, SockHeaderSize)
        b2 == IF reliable THEN Memcpy(b1, p1, SeqAckBytes) ELSE b1
        p2 == IF reliable THEN PtrPostIncrement(p1, SockSeqAckSize) ELSE p1
        b3 == Memcpy(b2, p2, header)
        b4 == Memcpy(b3, p2 + Len(header), data)
        len == SockHeaderSize + (IF reliable THEN SockSeqAckSize ELSE 0)
                 + Len(header) + Len(data)
    IN  [buffer |-> b4, len |-> len]

\* what follows the headers in a datagram: the user header and the data.
\* (No code under src/ reads a datagram; this is the layout that tx->len and
\* the names of sock_pack_send and sock_pack_seq_ack describe.)
Payload(dgram, reliable) ==
    SubSeq(dgram, SockHeaderSize + (IF reliable THEN SockSeqAckSize ELSE 0) + 1,
           Len(dgram))

\* one send packs its message into the buffer of TX x
SendvPack(x, header, data, reliable) ==
    LET p == sock_pack(wire.buffer[x], header, data, reliable) IN
    /\ wire.packed < MaxPacked
    /\ Len(header) + Len(data) <= SOCK_AM_SIZE
    /\ wire' = [wire EXCEPT !.buffer[x] = p.buffer,
                            !.dgram[x] = SubSeq(p.buffer, 1, p.len),
                            !.msg[x] = header \o data,
                            !.reliable[x] = reliable,
                            !.packed = @ + 1]
    /\ UNCHANGED <<crashed, th, conns, txs, dq, eq, sdev_lock, ids, nissued, ep_tx_timeout, api, sglobals, svc, eth>>

PackNext ==
    \E x \in TxIds, header \in BytesUpTo(SOCK_AM_SIZE),
       data \in BytesUpTo(SOCK_AM_SIZE), reliable \in BOOLEAN :
        SendvPack(x, header, data, reliable)

(***************************************************************************)
(* sock_progress_pending                                                   *)
(***************************************************************************)
\* pthread_mutex_lock(&sdev->lock) by a thread that does not hold it
PpLock(t) ==
    /\ crashed = "no"
    /\ th[t].pc = "pp_lock"
    /\ sdev_lock.owner = NULL
    /\ sdev_lock' = [owner |-> t, count |-> 1]
    /\ th' = [th EXCEPT ![t].pc = "pp_loop", ![t].cur = TAILQ_FIRST(dq, PendingHead),
                         ![t].locks = Acquire(LocksHeld(t), "sdev")]
    /\ UNCHANGED <<crashed, conns, txs, dq, eq, ids, wire, nissued, ep_tx_timeout, api, sglobals, svc, eth>>

\* "tx->resends >= ep->tx_timeout || tx->resends >= conn->tx_timeout"
PendingTimedOut(resends, ep_timeout, conn_timeout) ==
    resends >= ep_timeout \/ resends >= conn_timeout

\* One iteration of TAILQ_FOREACH_SAFE over sdev->pending (lines 826-885).
\* The connection is read as event->info.send.connection whatever the type of
\* the event; for the event of a connect request that is another member of
\* the union than the one stored, and the pointer read may be no connection.
PpBody(t) ==
    LET x == th[t].cur
        tx == txs[x]
        resends == tx.resends + 1
        timed_out == PendingTimedOut(resends, ep_tx_timeout,
                                     conns[tx.conn].tx_timeout)
    IN
    /\ crashed = "no"
    /\ th[t].pc = "pp_loop"
    /\ x # NULL
    /\ tx.cycles < MaxCycles
    /\ \E bad_union_read \in BOOLEAN :
          IF bad_union_read /\ tx.etype # "SEND"
          THEN crashed' = "info.send.connection" /\ UNCHANGED <<th, txs, dq, eq, wire>>
          ELSE /\ ~bad_union_read
               /\ crashed' = crashed
               /\ th' = [th EXCEPT ![t].cur = TAILQ_NEXT(dq, x), ![t].tmp = TAILQ_NEXT(dq, x),
                                    ![t].locks = IF timed_out
                                                 THEN Acquire(LocksHeld(t), "ep")
                                                 ELSE LocksHeld(t)]
               /\ IF timed_out
                  THEN /\ dq' = TAILQ_REMOVE(dq, PendingHead, x)
                       /\ txs' = [txs EXCEPT ![x].cycles = @ + 1, ![x].resends = resends,
                                             ![x].status = "ETIMEDOUT"]
                       /\ eq' = QueueEvent(eq, x)
                       /\ wire' = wire
                  ELSE /\ txs' = [txs EXCEPT ![x].cycles = @ + 1, ![x].resends = resends]
                       /\ wire' = SendTo(wire, x, tx)
                       /\ UNCHANGED <<dq, eq>>
    /\ UNCHANGED <<conns, sdev_lock, ids, nissued, ep_tx_timeout, api, sglobals, svc, eth>>

\* end of the walk: pthread_mutex_unlock(&sdev->lock), line 886
PpEnd(t) ==
    /\ crashed = "no"
    /\ th[t].pc = "pp_loop"
    /\ th[t].cur = NULL
    /\ sdev_lock' = FreeLock
    /\ th' = [th EXCEPT ![t].pc = "pq_lock"]
    /\ UNCHANGED <<crashed, conns, txs, dq, eq, ids, wire, nissued, ep_tx_timeout, api, sglobals, svc, eth>>

(***************************************************************************)
(* sock_progress_queued                                                    *)
(***************************************************************************)
\* line 906
PqLock(t) ==
    /\ crashed = "no"
    /\ th[t].pc = "pq_lock"
    /\ sdev_lock.owner = NULL
    /\ sdev_lock' = [owner |-> t, count |-> 1]
    /\ th' = [th EXCEPT ![t].pc = "pq_loop", ![t].cur = TAILQ_FIRST(dq, QueuedHead),
                         ![t].locks = Acquire(LocksHeld(t), "sdev")]
    /\ UNCHANGED <<crashed, conns, txs, dq, eq, ids, wire, nissued, ep_tx_timeout, api, sglobals, svc, eth>>

\* "timeout = conn->tx_timeout ? conn->tx_timeout : ep->tx_timeout"
QueuedTimeout(ep_timeout, conn_timeout) ==
    IF conn_timeout # 0 THEN conn_timeout ELSE ep_timeout

\* "if (tx->resends * SOCK_RESEND_TIME >= timeout)"
QueuedTimedOut(resends, timeout) ==
    resends * SOCK_RESEND_TIME >= timeout

\* lines 957-970: on a timeout a SILENT send goes back to the idle list, any
\* other TX is completed and its event queued
SilentToIdle(tx) ==
    tx.msg_type = "SEND" /\ BitAnd(tx.flags, CCI_FLAG_SILENT) # 0

\* One iteration of TAILQ_FOREACH_SAFE over sdev->queued, up to "msg sent"
\* (lines 907-1002).  The TX is not removed from the queued list (the
\* TAILQ_REMOVE is commented out) and after a timeout control falls through to
\* the sendto.  sock_sendto never returns -1, so the requeue branch is dead.
PqBody(t) ==
    LET x == th[t].cur
        tx == txs[x]
        cycles == tx.cycles + 1
        skip == cycles % SOCK_PROG_FREQ # 0
        resends == tx.resends + 1
        timeout == QueuedTimeout(ep_tx_timeout, conns[tx.conn].tx_timeout)
        timed_out == QueuedTimedOut(resends, timeout)
        to_idle == timed_out /\ SilentToIdle(tx)
        t1 == [tx EXCEPT !.cycles = cycles, !.resends = resends,
                  !.status = IF timed_out /\ tx.msg_type = "SEND" THEN "ETIMEDOUT" ELSE @,
                  !.etype = IF timed_out /\ tx.msg_type = "CONN_REQUEST"
                            THEN "CONNECT_TIMEOUT" ELSE @,
                  !.state = IF to_idle THEN "IDLE"
                            ELSE IF timed_out THEN "COMPLETED" ELSE @]
        rel == is_reliable(conns[tx.conn].attribute)
        dq1 == IF to_idle THEN TAILQ_INSERT_HEAD(dq, IdleHead, x) ELSE dq
        eq1 == IF timed_out /\ ~to_idle THEN QueueEvent(eq, x) ELSE eq
        \* sep->lock (line 962) or ep->lock (line 967) on a timeout, ep->lock
        \* (line 1016) for an unreliable TX, each inside sdev->lock
        locks == IF ~rel THEN Acquire(LocksHeld(t), "ep")
                 ELSE IF to_idle THEN Acquire(LocksHeld(t), "sep")
                 ELSE IF timed_out THEN Acquire(LocksHeld(t), "ep")
                 ELSE LocksHeld(t)
    IN
    /\ crashed = "no"
    /\ th[t].pc = "pq_loop"
    /\ x # NULL
    /\ tx.cycles < MaxCycles
    /\ IF skip
       THEN /\ txs' = [txs EXCEPT ![x].cycles = cycles]
            /\ th' = [th EXCEPT ![t].cur = TAILQ_NEXT(dq, x), ![t].tmp = TAILQ_NEXT(dq, x),
                                 ![t].locks = LocksHeld(t)]
            /\ UNCHANGED <<dq, eq, wire>>
       ELSE /\ wire' = SendTo(wire, x, t1)
            /\ dq' = dq1
            /\ IF rel
               THEN \* line 1009, then the lock of line 1010
                    /\ txs' = [txs EXCEPT ![x] = [t1 EXCEPT !.state = "PENDING"]]
                    /\ eq' = eq1
                    /\ th' = [th EXCEPT ![t].pc = "pq_relock", ![t].tmp = TAILQ_NEXT(dq, x),
                                         ![t].locks = locks]
               ELSE \* lines 1014-1018, "TODO handle SILENT flag"
                    /\ txs' = [txs EXCEPT ![x] = [t1 EXCEPT !.state = "COMPLETED"]]
                    /\ eq' = QueueEvent(eq1, x)
                    /\ th' = [th EXCEPT ![t].cur = TAILQ_NEXT(dq, x),
                                         ![t].tmp = TAILQ_NEXT(dq, x),
                                         ![t].locks = locks]
    /\ UNCHANGED <<crashed, conns, sdev_lock, ids, nissued, ep_tx_timeout, api, sglobals, svc, eth>>

\* What pthread_mutex_lock does when the caller already holds the (default)
\* mutex is undefined: it never returns, or it returns an error that the code
\* does not look at, or it counts the lock as a recursive one.
RelockOutcomes == {"deadlock", "error", "recursive"}

\* lines 1010-1012: lock sdev->lock, insert the TX at the tail of the pending
\* list (through the dentry that still links it on the queued list), unlock.
PqRelock(t) ==
    LET x == th[t].cur IN
    /\ crashed = "no"
    /\ th[t].pc = "pq_relock"
    /\ \/ /\ sdev_lock.owner = NULL
          /\ dq' = TAILQ_INSERT_TAIL(dq, PendingHead, x)
          /\ th' = [th EXCEPT ![t].pc = "pq_loop", ![t].cur = th[t].tmp,
                               ![t].locks = Acquire(LocksHeld(t), "sdev")]
          /\ UNCHANGED sdev_lock
       \/ /\ sdev_lock.owner = t
          /\ \E outcome \in RelockOutcomes :
                CASE outcome = "deadlock" ->
                        /\ th' = [th EXCEPT ![t].pc = "deadlock",
                                             ![t].locks = LocksHeld(t)]
                        /\ UNCHANGED <<dq, sdev_lock>>
                  [] outcome = "error" ->
                        /\ dq' = TAILQ_INSERT_TAIL(dq, PendingHead, x)
                        /\ sdev_lock' = FreeLock
                        /\ th' = [th EXCEPT ![t].pc = "pq_loop", ![t].cur = th[t].tmp,
                                             ![t].locks = LocksHeld(t)]
                  [] outcome = "recursive" ->
                        /\ dq' = TAILQ_INSERT_TAIL(dq, PendingHead, x)
                        /\ UNCHANGED sdev_lock
                        /\ th' = [th EXCEPT ![t].pc = "pq_loop", ![t].cur = th[t].tmp,
                                             ![t].locks = Acquire(LocksHeld(t), "sdev")]
    /\ UNCHANGED <<crashed, conns, txs, eq, ids, wire, nissued, ep_tx_timeout, api, sglobals, svc, eth>>

\* After the walk: "while (!TAILQ_EMPTY(&sdev->queued));" (line 1020).  Nothing
\* in the walk removes a TX from the queued list, and sdev->lock is not
\* released on the way out.
PqEnd(t) ==
    /\ crashed = "no"
    /\ th[t].pc = "pq_loop"
    /\ th[t].cur = NULL
    /\ th' = [th EXCEPT ![t].pc =
                 IF TAILQ_EMPTY(dq, QueuedHead) THEN "after_progress" ELSE "spin"]
    /\ UNCHANGED <<crashed, conns, txs, dq, eq, sdev_lock, ids, wire, nissued, ep_tx_timeout, api, sglobals, svc, eth>>

(***************************************************************************)
(* Leaving an API call.                                                    *)
(***************************************************************************)
\* sock_sendv after sock_progress_sends (lines 1217-1247) and sock_connect
\* (line 693); the wait of a BLOCKING send ends when tx->state is COMPLETED.
ApiReturn(t) ==
    LET x == th[t].tx
        blocking == /\ th[t].op = "sendv"
                    /\ is_reliable(conns[th[t].conn].attribute)
                    /\ BitAnd(txs[x].flags, CCI_FLAG_BLOCKING) # 0
    IN
    /\ crashed = "no"
    /\ \/ /\ th[t].pc = "ret"
          /\ th' = [th EXCEPT ![t] = IdleThread]
          /\ UNCHANGED <<dq, eq, crashed>>
       \/ /\ th[t].pc = "after_progress"
          /\ ~blocking
          /\ th' = [th EXCEPT ![t] = [IdleThread EXCEPT !.pc = "ret", !.ret = "CCI_SUCCESS"]]
          /\ UNCHANGED <<dq, eq, crashed>>
       \/ /\ th[t].pc = "after_progress"
          /\ blocking
          /\ txs[x].state = "COMPLETED"
          /\ IF eq.prev[x] = NULL
             THEN crashed' = "TAILQ_REMOVE" /\ UNCHANGED <<th, dq, eq>>
             ELSE /\ eq' = TAILQ_REMOVE(eq, EvtsHead, x)
                  /\ dq' = TAILQ_INSERT_HEAD(dq, IdleHead, x)
                  /\ th' = [th EXCEPT ![t] = [IdleThread EXCEPT
                                 !.pc = "ret", !.ret = txs[x].status,
                                 !.locks = Acquire(LocksHeld(t), "sep")]]
                  /\ crashed' = crashed
    /\ UNCHANGED <<conns, txs, sdev_lock, ids, wire, nissued, ep_tx_timeout, api, sglobals, svc, eth>>

\* sock_get_event (lines 755-765) returns CCI_ERR_NOT_IMPLEMENTED (sglobals is
\* set: the endpoint exists)
GetEvent(t) ==
    /\ crashed = "no"
    /\ MayCall(t)
    /\ th' = [th EXCEPT ![t] = [IdleThread EXCEPT !.pc = "ret", !.op = "get_event",
                                                   !.ret = "CCI_ERR_NOT_IMPLEMENTED"]]
    /\ UNCHANGED <<crashed, conns, txs, dq, eq, sdev_lock, ids, wire, nissued, ep_tx_timeout, api, sglobals, svc, eth>>

\* the steps of the thread t of the application; the arguments of a call are
\* drawn only where the thread is free to make one
SockStep(t) ==
    \/ \E a \in Attributes, ok \in BOOLEAN : CallConnect(t, a, ok)
    \/ ConnectNoTx(t)
    \/ ConnectGetTx(t)
    \/ /\ MayCall(t)
       /\ \E c \in ConnIds, f \in SendFlags, header_len \in HeaderLens,
             data_len \in DataLens, ns \in BOOLEAN :
             CallSendv(t, c, f, header_len, data_len, ns)
    \/ SendvDirect(t)
    \/ SendvNoTx(t)
    \/ SendvGetTx(t)
    \/ SendvSeq(t)
    \/ Enqueue(t)
    \/ PpLock(t)
    \/ PpBody(t)
    \/ PpEnd(t)
    \/ PqLock(t)
    \/ PqBody(t)
    \/ PqRelock(t)
    \/ PqEnd(t)
    \/ ApiReturn(t)
    \/ GetEvent(t)

SockNext == \E t \in Threads : SockStep(t)

(***************************************************************************)
(* sock_init called again.                                                 *)
(***************************************************************************)
\* calls of sock_init after the first
MaxReinits == 1

\* TAILQ_INIT(&head)
TAILQ_INIT(q, head) == [q EXCEPT !.next[head] = NULL, !.last[head] = head]

\* sock_init, lines 144-216, called while every other thread is outside a
\* call or sits for good in the lock of line 1010 or the loop of line 1020.
\* There is no test for an earlier call: sglobals and, for every sock device,
\* dev->priv are allocated anew; the lists and the lock of the new sock_dev_t
\* are initialised, and the old sock_dev_t, with what was on its lists, is
\* referenced only by the threads that sit in it.
SockInitAgain(t) ==
    /\ crashed = "no"
    /\ MayCall(t)
    /\ \A u \in Threads : th[u].pc \in {"idle", "deadlock", "spin"}
    /\ sglobals.inits <= MaxReinits
    /\ sglobals' = SockGlobals(sglobals.inits + 1)
    /\ dq' = TAILQ_INIT(TAILQ_INIT(dq, QueuedHead), PendingHead)
    /\ sdev_lock' = FreeLock
    /\ th' = [th EXCEPT ![t] = [IdleThread EXCEPT
                   !.pc = "ret", !.op = "init", !.ret = "CCI_SUCCESS"]]
    /\ UNCHANGED <<crashed, conns, txs, eq, ids, wire, nissued, ep_tx_timeout, api, svc, eth>>

(***************************************************************************)
(* ccieth_recv.c: the receive path of the ccieth driver.  ccieth_recv runs *)
(* in softirq context and may run on several CPUs at once.                 *)
(***************************************************************************)
\* events of the endpoint (all on its free-event list at first)
NumEvents == 2
\* largest msg_seqnum of a packet
MaxSeqnum == 1
\* ep->max_send_size
MaxSendSize == 1
\* no packet is deferred on a connection that holds MaxDeferred of them
MaxDeferred == 1

EthCpus == {1, 2}
EthConnIds == {1, 2}
EthEventIds == 1..NumEvents
\* the endpoint's ID in ccieth_ep_idr and the interface it is attached to
EthEpId == 1
EthIfp == 1

ConnectTypes == {"CONNECT_REQUEST", "CONNECT_ACCEPT", "CONNECT_REJECT", "CONNECT_ACK"}
PktTypes == ConnectTypes \cup {"MSG", "OTHER"}
EthStatuses == {"READY", "REQUESTED", "CLOSING"}
EthAttributes == {"RO", "RU", "UU"}
\* payloads: what follows the header in a packet
EthDatas == {<<>>, <<1>>}

\* A packet buffer.  avail says what skb_header_pointer can read: nothing,
\* the type byte only, or the whole header; data is what follows the header.
NoSkb ==
    [avail |-> "none", type |-> "OTHER", dst_ep_id |-> 0, dst_conn_id |-> 0,
     msg_seqnum |-> 0, msg_len |-> 0, data |-> <<>>]

MsgSkb(ep_id, conn_id, seqnum, len, data) ==
    [avail |-> "all", type |-> "MSG", dst_ep_id |-> ep_id, dst_conn_id |-> conn_id,
     msg_seqnum |-> seqnum, msg_len |-> len, data |-> data]

\* The calls of ccieth_recv the model makes.  Valid messages for the first
\* connection with every sequence number and with every payload, a packet
\* that is longer than its msg_len, and one packet for the
\* second connection and for each other case: an unknown connection, a
\* msg_len above max_send_size (in a packet that is too short as well, and
\* in one that is long enough), a packet shorter than its msg_len, an unknown
\* endpoint, another interface, a failing skb_share_check, a packet without a
\* readable type or header, and the other packet types.
EthMsgs ==
    {MsgSkb(EthEpId, 1, n, 0, <<>>) : n \in 0..MaxSeqnum}
    \cup {MsgSkb(EthEpId, 1, 0, Len(d), d) : d \in EthDatas}
    \cup {MsgSkb(EthEpId, 1, 0, Len(d) - 1, d) : d \in EthDatas \ {<<>>}}
    \cup {MsgSkb(EthEpId, 2, 0, 0, <<>>),
          MsgSkb(EthEpId, NumEvents + 1, 0, 0, <<>>),
          MsgSkb(EthEpId, 1, 0, MaxSendSize + 1, <<>>),
          MsgSkb(EthEpId, 1, 0, MaxSendSize + 1, [i \in 1..(MaxSendSize + 1) |-> 1]),
          MsgSkb(EthEpId, 1, 0, 1, <<>>)}

EthCalls ==
    {[skb |-> m, ifp |-> EthIfp, share_fails |-> FALSE] : m \in EthMsgs}
    \cup {[skb |-> MsgSkb(EthEpId + 1, 1, 0, 0, <<>>), ifp |-> EthIfp,
           share_fails |-> FALSE],
          [skb |-> MsgSkb(EthEpId, 1, 0, 0, <<>>), ifp |-> EthIfp + 1,
           share_fails |-> FALSE],
          [skb |-> MsgSkb(EthEpId, 1, 0, 0, <<>>), ifp |-> EthIfp,
           share_fails |-> TRUE],
          [skb |-> NoSkb, ifp |-> EthIfp, share_fails |-> FALSE],
          [skb |-> [NoSkb EXCEPT !.avail = "type", !.type = "MSG"],
           ifp |-> EthIfp, share_fails |-> FALSE]}
    \cup {[skb |-> [NoSkb EXCEPT !.avail = "all", !.type = ty], ifp |-> EthIfp,
           share_fails |-> FALSE] : ty \in PktTypes \ {"MSG"}}

FreeEvent ==
    [type |-> "NONE", data_length |-> 0, user_conn_id |-> 0, data |-> <<>>,
     seqnum |-> 0]

\* a CPU that is not in ccieth_recv
IdleCpu == [pc |-> "idle", skb |-> NoSkb, ifp |-> 0, conn |-> 0, event |-> 0]

\* The call of ccieth_recv that returned last: its arguments and what it did.
\* freed: calls of dev_kfree_skb on the packet; handed: who else took the
\* packet; rcu_locked, rcu_unlocked: calls of rcu_read_lock and
\* rcu_read_unlock.
NoCall ==
    [cpu |-> 0, skb |-> NoSkb, ifp |-> 0, ret |-> "none", freed |-> 0,
     handed |-> "none", rcu_locked |-> 0, rcu_unlocked |-> 0]

EthConn(id, status, attribute) ==
    [status |-> status, attribute |-> attribute, user_conn_id |-> 10 * id,
     deferred |-> 0]

\* Two connections, the second one READY and RU.  sent: the packets the
\* receive path has transmitted; woken: the times it has signalled the
\* endpoint's wake handle.
EthInitWith(status, attribute) ==
    eth = [cpu |-> [c \in EthCpus |-> IdleCpu],
           conns |-> [c \in EthConnIds |->
                        IF c = 1 THEN EthConn(c, status, attribute)
                        ELSE EthConn(c, "READY", "RU")],
           events |-> [e \in EthEventIds |-> FreeEvent],
           free_event_list |-> [e \in EthEventIds |-> e],
           event_list |-> <<>>,
           last |-> NoCall,
           sent |-> {},
           woken |-> 0]

\* The first connection in every status and, while it is not READY, with
\* every attribute (the receive path reads the attribute of a connection
\* only when its status is REQUESTED).
EthInit ==
    \E status \in EthStatuses, attribute \in EthAttributes :
        /\ status = "READY" => attribute = "RO"
        /\ EthInitWith(status, attribute)

\* the call returns
EthReturn(e, cpu, skb, ifp, ret, freed, handed, rcu_locked, rcu_unlocked) ==
    [e EXCEPT !.cpu[cpu] = IdleCpu,
              !.last = [cpu |-> cpu, skb |-> skb, ifp |-> ifp, ret |-> ret,
                        freed |-> freed, handed |-> handed,
                        rcu_locked |-> rcu_locked,
                        rcu_unlocked |-> rcu_unlocked]]

\* "list_del(&event->list)" of the first entry of the free list
MutListDelKeepsEntry(list) == list
list_del(list) == Tail(list)

\* ccieth__recv_msg, lines 23-33 ("get an event"): without a free event the
\* packet is freed and -ENOMEM returned; nothing is sent to the peer.
ccieth__recv_msg(e, cpu, skb, ifp) ==
    IF e.free_event_list = <<>>
    THEN EthReturn(e, cpu, skb, ifp, "-ENOMEM", 1, "none", 1, 1)
    ELSE [e EXCEPT !.free_event_list = list_del(@),
                   !.cpu[cpu] = [pc |-> "setup", skb |-> skb, ifp |-> ifp,
                                 conn |-> skb.dst_conn_id,
                                 event |-> Head(e.free_event_list)]]

\* "msg_len > ep->max_send_size || skb->len < sizeof(*hdr) + msg_len"
MutBadMsgLenShortOnly(skb) == Len(skb.data) < skb.msg_len
BadMsgLen(skb) == skb.msg_len > MaxSendSize \/ Len(skb.data) < skb.msg_len

\* "conn->status == CCIETH_CONNECTION_REQUESTED
\*  && conn->attribute == CCIETH_CONNECT_ATTR_UU"
MutDeferAnyRequested(conn) == conn.status = "REQUESTED"
DeferRecv(conn) == conn.status = "REQUESTED" /\ conn.attribute = "UU"

\* "list_add_tail(&event->list, &ep->event_list)"
MutListAddHead(list, event) == <<event>> \o list
list_add_tail(list, event) == Append(list, event)

\* ccieth_recv_msg, lines 113-118: "out_with_rculock: rcu_read_unlock();" and
\* "out: dev_kfree_skb(skb); return err;"
MutOutKeepsRcuLock(e, cpu, skb, ifp, err) ==
    EthReturn(e, cpu, skb, ifp, err, 1, "none", 1, 0)
out_with_rculock(e, cpu, skb, ifp, err) ==
    EthReturn(e, cpu, skb, ifp, err, 1, "none", 1, 1)

\* ccieth_recv_msg, lines 69-118.  msg_seqnum is read and only printed.
ccieth_recv_msg(e, cpu, skb, ifp) ==
    IF skb.avail # "all"
    THEN EthReturn(e, cpu, skb, ifp, "-EINVAL", 1, "none", 0, 0)
    ELSE IF skb.dst_ep_id # EthEpId \/ ifp # EthIfp
    THEN out_with_rculock(e, cpu, skb, ifp, "-EINVAL")
    ELSE IF BadMsgLen(skb)
    THEN out_with_rculock(e, cpu, skb, ifp, "-EINVAL")
    ELSE IF skb.dst_conn_id \notin EthConnIds
    THEN out_with_rculock(e, cpu, skb, ifp, "-EINVAL")
    ELSE IF e.conns[skb.dst_conn_id].status = "READY"
    THEN ccieth__recv_msg(e, cpu, skb, ifp)
    ELSE IF DeferRecv(e.conns[skb.dst_conn_id])
    THEN EthReturn([e EXCEPT !.conns[skb.dst_conn_id].deferred = @ + 1],
                   cpu, skb, ifp, "0", 0, "ccieth_conn_uu_defer_recv_msg", 1, 1)
    ELSE out_with_rculock(e, cpu, skb, ifp, "-EINVAL")

\* ccieth_recv, lines 120-157, and the functions it calls up to the point
\* where ccieth__recv_msg has taken an event off the free list.
ccieth_recv(cpu, skb, ifp, share_fails) ==
    LET new ==
          IF share_fails
          THEN EthReturn(eth, cpu, skb, ifp, "0", 0, "skb_share_check", 0, 0)
          ELSE IF skb.avail = "none"
          THEN EthReturn(eth, cpu, skb, ifp, "-EINVAL", 1, "none", 0, 0)
          ELSE IF skb.type \in ConnectTypes
          THEN EthReturn(eth, cpu, skb, ifp, "ccieth_defer_connect_recv", 0,
                         "ccieth_defer_connect_recv", 0, 0)
          ELSE IF skb.type = "MSG"
          THEN ccieth_recv_msg(eth, cpu, skb, ifp)
          ELSE EthReturn(eth, cpu, skb, ifp, "-EINVAL", 1, "none", 0, 0)
    IN
    /\ eth.cpu[cpu].pc = "idle"
    /\ \A d \in EthCpus : d < cpu => eth.cpu[d].pc # "idle"
    /\ \A c \in EthConnIds : new.conns[c].deferred <= MaxDeferred
    /\ eth' = new
    /\ UNCHANGED sockvars

\* ccieth__recv_msg, lines 35-43, "setup the event" and "finalize": type,
\* data_length, the copy of the payload, user_conn_id
MutSetupWithoutConnId(skb, conn) ==
    [type |-> "RECV",
     data_length |-> skb.msg_len,
     data |-> SubSeq(skb.data, 1, skb.msg_len),
     user_conn_id |-> FreeEvent.user_conn_id,
     seqnum |-> skb.msg_seqnum]
SetupEvent(skb, conn) ==
    [type |-> "RECV",
     data_length |-> skb.msg_len,
     data |-> SubSeq(skb.data, 1, skb.msg_len),
     user_conn_id |-> conn.user_conn_id,
     seqnum |-> skb.msg_seqnum]

\* ccieth__recv_msg, lines 35-50, and the return of ccieth_recv_msg (lines
\* 110-111): fill in the event, append it to the event list, free the packet.
\* The seqnum field of an event is not in the code: it records the msg_seqnum
\* of the packet the event was made from.
RecvMsgQueue(cpu) ==
    LET me == eth.cpu[cpu]
        event == SetupEvent(me.skb, eth.conns[me.conn])
    IN
    /\ me.pc = "setup"
    /\ eth' = [eth EXCEPT !.events[me.event] = event,
                          !.event_list = list_add_tail(@, me.event),
                          !.cpu[cpu] = IdleCpu,
                          !.last = [cpu |-> cpu, skb |-> me.skb, ifp |-> me.ifp,
                                    ret |-> "0", freed |-> 1, handed |-> "none",
                                    rcu_locked |-> 1, rcu_unlocked |-> 1]]
    /\ UNCHANGED sockvars

EthNext ==
    \E cpu \in EthCpus :
        \/ \E call \in EthCalls :
              ccieth_recv(cpu, call.skb, call.ifp, call.share_fails)
        \/ RecvMsgQueue(cpu)

(***************************************************************************)
(* Plugin verification, and the entry points of the sock plugin that take  *)
(* an event.                                                               *)
(***************************************************************************)
\* the function pointers cci_plugins_ctp_verify looks at
CtpOperations ==
    {"init", "finalize", "strerror", "create_endpoint", "create_endpoint_at",
     "destroy_endpoint", "accept", "reject", "connect", "disconnect",
     "set_opt", "get_opt", "arm_os_handle", "get_event", "return_event",
     "send", "sendv", "rma_register", "rma_deregister", "rma"}

\* CCI_CTP_API_VERSION_MAJOR, _MINOR, _RELEASE
CCI_CTP_API_VERSION == [major |-> 2, minor |-> 0, release |-> 0]

\* 1 stands for the address of a function
CtpPlugin(missing, version) ==
    [ops |-> [o \in CtpOperations |-> IF o \in missing THEN NULL ELSE 1],
     version |-> version]

\* the sets of at most k operations
RECURSIVE MissingSets(_)
MissingSets(k) ==
    IF k = 0 THEN {{}}
    ELSE MissingSets(k - 1) \cup
         {ms \cup {o} : ms \in MissingSets(k - 1), o \in CtpOperations}

\* the supported version and the versions that differ from it in some part
CtpVersions ==
    [major : {CCI_CTP_API_VERSION.major, CCI_CTP_API_VERSION.major + 1},
     minor : {CCI_CTP_API_VERSION.minor, CCI_CTP_API_VERSION.minor + 1},
     release : {CCI_CTP_API_VERSION.release, CCI_CTP_API_VERSION.release + 1}]

CtpPlugins ==
    {CtpPlugin(ms, v) : ms \in MissingSets(MaxMissing), v \in CtpVersions}

MutVerifyFunctionsOnly(plugin) ==
    IF \E o \in CtpOperations : plugin.ops[o] = NULL
    THEN "CCI_ERROR" ELSE "CCI_SUCCESS"

cci_plugins_ctp_verify(plugin) ==
    LET p == plugin.ops IN
    IF \/ NULL = p["init"]
       \/ NULL = p["finalize"]
       \/ NULL = p["strerror"]
       \/ NULL = p["create_endpoint"]
       \/ NULL = p["create_endpoint_at"]
       \/ NULL = p["destroy_endpoint"]
       \/ NULL = p["accept"]
       \/ NULL = p["reject"]
       \/ NULL = p["connect"]
       \/ NULL = p["disconnect"]
       \/ NULL = p["set_opt"]
       \/ NULL = p["get_opt"]
       \/ NULL = p["arm_os_handle"]
       \/ NULL = p["get_event"]
       \/ NULL = p["return_event"]
       \/ NULL = p["send"]
       \/ NULL = p["sendv"]
       \/ NULL = p["rma_register"]
       \/ NULL = p["rma_deregister"] \/ NULL = p["rma"]
    THEN "CCI_ERROR"
    ELSE IF \/ plugin.version.major # CCI_CTP_API_VERSION.major
            \/ plugin.version.minor # CCI_CTP_API_VERSION.minor
            \/ plugin.version.release # CCI_CTP_API_VERSION.release
    THEN "CCI_ERROR"
    ELSE "CCI_SUCCESS"

\* req: whether the application has passed its CONNECT_REQUEST event to
\* accept or reject yet; plugin: the plugin handed to cci_plugins_ctp_verify
ApiWith(plugin) == [req |-> "new", plugin |-> plugin]
NoApi == ApiWith(CtpPlugin({}, CCI_CTP_API_VERSION))

\* an entry point that is a stub: "return CCI_ERR_NOT_IMPLEMENTED" (sglobals is
\* set: the endpoint exists)
Stub(t, op) ==
    [th EXCEPT ![t] = [IdleThread EXCEPT !.pc = "ret", !.op = op,
                                         !.ret = "CCI_ERR_NOT_IMPLEMENTED"]]

\* sock_accept (lines 450-460) on the connection request event
Accept(t) ==
    /\ crashed = "no"
    /\ MayCall(t)
    /\ th' = Stub(t, "accept")
    /\ api' = [api EXCEPT !.req = "passed"]
    /\ UNCHANGED <<crashed, conns, txs, dq, eq, sdev_lock, ids, wire, nissued, ep_tx_timeout, sglobals, svc, eth>>

\* sock_reject (lines 463-471) on the connection request event
Reject(t) ==
    /\ crashed = "no"
    /\ MayCall(t)
    /\ th' = Stub(t, "reject")
    /\ api' = [api EXCEPT !.req = "passed"]
    /\ UNCHANGED <<crashed, conns, txs, dq, eq, sdev_lock, ids, wire, nissued, ep_tx_timeout, sglobals, svc, eth>>

\* sock_return_event (lines 768-777) on the connection request event
ReturnEvent(t) ==
    /\ crashed = "no"
    /\ MayCall(t)
    /\ th' = Stub(t, "return_event")
    /\ UNCHANGED <<crashed, conns, txs, dq, eq, sdev_lock, ids, wire, nissued, ep_tx_timeout, api, sglobals, svc, eth>>

\* the plugin loader calls cci_plugins_ctp_verify on the plugin
Verify(t) ==
    /\ crashed = "no"
    /\ MayCall(t)
    /\ th' = [th EXCEPT ![t] = [IdleThread EXCEPT !.pc = "ret", !.op = "ctp_verify",
                                   !.ret = cci_plugins_ctp_verify(api.plugin)]]
    /\ UNCHANGED <<crashed, conns, txs, dq, eq, sdev_lock, ids, wire, nissued, ep_tx_timeout, api, sglobals, svc, eth>>

ApiNext ==
    \E t \in Threads :
        \/ Accept(t)
        \/ Reject(t)
        \/ ReturnEvent(t)
        \/ GetEvent(t)
        \/ Verify(t)
        \/ ApiReturn(t)

(***************************************************************************)
(* sock_bind                                                               *)
(***************************************************************************)
\* calls of sock_bind made in a run
MaxBinds == 2
\* width of sin_port, "(uint16_t) *port"
PortBits == 16
\* the values of *port passed in: around the limit of the 16 bits of a port
Ports == {1, 2, 2^PortBits - 1, 2^PortBits, 2^PortBits + 1}

\* line 401, the cast to uint16_t (htons only changes the byte order)
Uint16(port) == port % 2^PortBits

\* line 378
PortOutOfRange(port) == port > 64 * 1024

\* line 403: bind() refuses a port that a socket of the process holds already
\* (EADDRINUSE), port 0 asks for any free port; other failures are the input
\* bind_ok
PortInUse(sin_port) ==
    /\ sin_port # 0
    /\ \E i \in 1..Len(svc.socks) : svc.socks[i].sin_port = sin_port

BindReturn(port, sock_driver, ret, sin_port) ==
    [port |-> port, sock_driver |-> sock_driver, ret |-> ret, sin_port |-> sin_port]

\* lines 354-415.  slep is assigned at line 390 only: the "goto out" of line
\* 374 passes an indeterminate pointer to free(), which returns (it was NULL)
\* or faults.  lep is NULL after the TAILQ_FOREACH of lines 382-386 when the
\* service has no listening endpoint on this device, and line 411 stores
\* through it.  A failed bind() frees slep and leaves the socket open.
sock_bind(port, sock_driver, lep_found, calloc_ok, socket_ok, bind_ok) ==
    /\ crashed = "no"
    /\ Len(svc.socks) < MaxBinds
    /\ IF ~sock_driver
       THEN \E slep_is_null \in BOOLEAN :
               IF slep_is_null
               THEN /\ svc' = [svc EXCEPT !.last = BindReturn(port, sock_driver, "CCI_EINVAL", 0)]
                    /\ crashed' = crashed
               ELSE crashed' = "free(slep)" /\ svc' = svc
       ELSE IF PortOutOfRange(port)
       THEN /\ svc' = [svc EXCEPT !.last = BindReturn(port, sock_driver, "CCI_ERANGE", 0)]
            /\ crashed' = crashed
       ELSE IF ~calloc_ok
       THEN /\ svc' = [svc EXCEPT !.last = BindReturn(port, sock_driver, "CCI_ENOMEM", 0)]
            /\ crashed' = crashed
       ELSE IF ~socket_ok
       THEN /\ svc' = [svc EXCEPT !.last = BindReturn(port, sock_driver, "errno", 0)]
            /\ crashed' = crashed
       ELSE IF ~bind_ok \/ PortInUse(Uint16(port))
       THEN /\ svc' = [svc EXCEPT !.last = BindReturn(port, sock_driver, "errno", 0)]
            /\ crashed' = crashed
       ELSE IF ~lep_found
       THEN crashed' = "lep->priv" /\ svc' = svc
       ELSE /\ svc' = [svc EXCEPT
                         !.socks = Append(@, [sin_port |-> Uint16(port)]),
                         !.priv = Len(svc.socks) + 1,
                         !.last = BindReturn(port, sock_driver, "CCI_SUCCESS", Uint16(port))]
            /\ crashed' = crashed
    /\ UNCHANGED <<th, conns, txs, dq, eq, sdev_lock, ids, wire, nissued, ep_tx_timeout, api, sglobals, eth>>

BindNext ==
    \E port \in Ports, sock_driver \in BOOLEAN, lep_found \in BOOLEAN,
       calloc_ok \in BOOLEAN, socket_ok \in BOOLEAN, bind_ok \in BOOLEAN :
        sock_bind(port, sock_driver, lep_found, calloc_ok, socket_ok, bind_ok)

(***************************************************************************)
(* Specifications: the sock send side with the driver at rest, and the     *)
(* ccieth receive path with the sock endpoint at rest.                     *)
(***************************************************************************)
Init == SockInit /\ api = NoApi /\ EthInitWith("READY", "RO")
Next == SockNext
Spec == Init /\ [][Next]_vars

InitEth ==
    SockInitWith(CCI_CONN_ATTR_RO, NumTx, MaxEpTimeout, "wrap") /\ api = NoApi /\ EthInit
SpecEth == InitEth /\ [][EthNext]_vars

\* sock_get_id called again and again on one endpoint, no sock_put_id between
GetId(n) ==
    /\ crashed = "no"
    /\ Len(ids.given) < MaxIds
    /\ sock_get_id(ids, n).free
    /\ ids' = sock_get_id(ids, n).ids
    /\ UNCHANGED <<crashed, th, conns, txs, dq, eq, sdev_lock, ep_tx_timeout, wire, nissued, api, sglobals, svc, eth>>

IdsNext == \E n \in IdRandomValues : GetId(n)

\* one endpoint of a build of either kind, no ID handed out yet
InitIds ==
    \E shift \in IntShiftOutcomes :
        /\ SockInitWith(CCI_CONN_ATTR_RO, NumTx, MaxEpTimeout, shift)
        /\ api = NoApi
        /\ EthInitWith("READY", "RO")

SpecIds == InitIds /\ [][IdsNext]_vars

\* calls of sock_put_id made in a run
MaxPuts == 2

\* sock_put_id on an ID that sock_get_id has handed out; a failed assert
\* aborts the process
PutId(i) ==
    /\ crashed = "no"
    /\ Len(ids.put) < MaxPuts
    /\ IF sock_put_id(ids, i).passes
       THEN ids' = sock_put_id(ids, i).ids /\ crashed' = crashed
       ELSE ids' = sock_put_id(ids, i).aborted /\ crashed' = "assert"
    /\ UNCHANGED <<th, conns, txs, dq, eq, sdev_lock, ep_tx_timeout, wire, nissued, api, sglobals, svc, eth>>

\* IDs taken and given back on one endpoint
PutNext == \E i \in DOMAIN ids.given : PutId(i)

PutIdsNext == IdsNext \/ PutNext

SpecPutIds == InitIds /\ [][PutIdsNext]_vars

\* one endpoint, a connection request event in the hands of the application,
\* and a plugin that lacks up to MaxMissing functions or is of another version
InitApi ==
    /\ SockInitWith(CCI_CONN_ATTR_RO, NumTx, MaxEpTimeout, "wrap")
    /\ \E plugin \in CtpPlugins : api = ApiWith(plugin)
    /\ EthInitWith("READY", "RO")

SpecApi == InitApi /\ [][ApiNext]_vars

\* the sock send side of an application that may call init once more
InitReinit ==
    /\ \E a \in {CCI_CONN_ATTR_RU, CCI_CONN_ATTR_UU}, tx_buf_cnt \in {0, NumTx} :
          SockInitWith(a, tx_buf_cnt, 1, "wrap")
    /\ api = NoApi
    /\ EthInitWith("READY", "RO")

\* sends packed one after the other into the buffers of the TXs
InitPack ==
    /\ SockInitWith(CCI_CONN_ATTR_RU, NumTx, MaxEpTimeout, "wrap")
    /\ api = NoApi
    /\ EthInitWith("READY", "RO")

SpecPack == InitPack /\ [][PackNext]_vars

ReinitNext == SockNext \/ \E t \in Threads : SockInitAgain(t)

SpecReinit == InitReinit /\ [][ReinitNext]_vars

\* the sock send side of an application that also passes header lengths near
\* UINT_MAX to sock_sendv
SendvNext ==
    \/ SockNext
    \/ \E t \in Threads :
          /\ MayCall(t)
          /\ \E c \in ConnIds, f \in SendFlags,
                header_len \in WideHeaderLens, data_len \in DataLens :
                CallSendv(t, c, f, header_len, data_len, FALSE)

SpecSendv == InitReinit /\ [][SendvNext]_vars

\* sock_bind called on a service of the initialised plugin
InitBind ==
    /\ SockInitWith(CCI_CONN_ATTR_RO, NumTx, MaxEpTimeout, "wrap")
    /\ api = NoApi
    /\ EthInitWith("READY", "RO")

SpecBind == InitBind /\ [][BindNext]_vars

\* the sock send side with every thread of the application scheduled again
\* and again: a thread that can take a step is not kept from it for ever
SpecLive == InitReinit /\ [][SockNext]_vars /\ \A t \in Threads : WF_vars(SockStep(t))

(***************************************************************************)
(* Properties of the sock send side.                                       *)
(***************************************************************************)
\* the events on ep->evts, as a walk from the head of the list meets them
Evts == ListOf(eq, EvtsHead)

\* reliable as cci.h defines it: the connection is RO or RU
Reliable(c) == conns[c].attribute \in {CCI_CONN_ATTR_RO, CCI_CONN_ATTR_RU}

\* TX x carries a send that sock_sendv has filled in
IsSend(x) == txs[x].msg_type = "SEND" /\ txs[x].state # "IDLE"

Silent(x) == BitAnd(txs[x].flags, CCI_FLAG_SILENT) # 0
Blocking(x) == BitAnd(txs[x].flags, CCI_FLAG_BLOCKING) # 0

\* Thread t sits in the lock of line 1010 or in the loop of line 1020; no
\* step takes it out of either.
Stuck(t) == th[t].pc \in {"deadlock", "spin"}

\* sdev->lock is held by a thread that will not release it and no thread is
\* inside a progress pass: no thread can enter a pass or queue a TX any more,
\* and the event queue stays as it is
LockLost ==
    /\ \E t \in Threads : Stuck(t) /\ sdev_lock.owner = t
    /\ \A t \in Threads :
          th[t].pc \notin {"pp_loop", "pq_loop", "pq_relock", "after_progress"}

RoSendEvents(i, j) ==
    /\ i < j
    /\ Evts[i] # Evts[j]
    /\ txs[Evts[i]].etype = "SEND" /\ txs[Evts[j]].etype = "SEND"
    /\ txs[Evts[i]].conn = txs[Evts[j]].conn
    /\ conns[txs[Evts[i]].conn].attribute = CCI_CONN_ATTR_RO

HasTimedOutSend(c) ==
    \E x \in Range(Evts) :
        txs[x].etype = "SEND" /\ txs[x].conn = c /\ txs[x].status = "ETIMEDOUT"

\* C5: once a send on an RO connection has completed with TIMED_OUT, every
\* later call of send on that connection fails: the call returns an error
\* at once instead of going on to transmit.
C5_SendFailsAfterTimeout ==
    [][\A t \in Threads, c \in ConnIds :
          (/\ conns[c].alloc /\ conns[c].attribute = CCI_CONN_ATTR_RO
           /\ HasTimedOutSend(c)
           /\ th[t].pc = "idle" /\ th'[t].op = "sendv")
          => (th'[t].pc = "ret" /\ th'[t].conn # c)]_vars

\* C6: a send on a reliable connection that finds the idle TX pool empty
\* returns CCI_ENOBUFS and leaves the connections (their next sequence
\* numbers), the queued and pending lists and the event queue as they were.
C6_NoBufferSpace ==
    [][\A t \in Threads :
          (/\ th[t].pc = "sv_gettx" /\ Reliable(th[t].conn)
           /\ TAILQ_EMPTY(dq, IdleHead)
           /\ (th'[t] # th[t] \/ crashed' = "sock_sendv tx"))
          => (/\ th'[t].pc = "ret" /\ th'[t].ret = "CCI_ENOBUFS"
              /\ crashed' = "no"
              /\ conns' = conns /\ dq' = dq /\ eq' = eq)]_vars

\* C8: the event of a send issued with CCI_FLAG_SILENT and without
\* CCI_FLAG_BLOCKING is never on the event queue.
C8_SilentSendHasNoEvent ==
    \A x \in Range(Evts) :
        ~(txs[x].msg_type = "SEND" /\ txs[x].etype = "SEND"
          /\ Silent(x) /\ ~Blocking(x))

\* C9: a reliable send issued with CCI_FLAG_BLOCKING returns its completion
\* status from the call: the calling thread never ends up where it cannot
\* return (and sock_get_event, which returns CCI_ERR_NOT_IMPLEMENTED, hands
\* out no event).
C9_BlockingSendReturns ==
    \A t \in Threads :
        (/\ th[t].op = "sendv" /\ th[t].tx # NULL
         /\ Reliable(th[t].conn) /\ Blocking(th[t].tx))
        => ~Stuck(t)

\* C10: a connect request that gets no reply (none ever arrives) produces one
\* CONNECT event with status TIMED_OUT: its event is on the event queue at
\* most once, and only typed as a timeout.
C10_ConnectTimesOutOnce ==
    \A x \in TxIds :
        (txs[x].msg_type = "CONN_REQUEST" /\ txs[x].state # "IDLE") =>
            /\ Occurrences(Evts, x) <= 1
            /\ x \in Range(Evts) => txs[x].etype = "CONNECT_TIMEOUT"

(***************************************************************************)
(* Properties of the ccieth receive path.                                  *)
(***************************************************************************)
\* the events on the endpoint's event list, first to last
EthEvents == [i \in DOMAIN eth.event_list |-> eth.events[eth.event_list[i]]]

\* C2: on an RO connection the RECV events are queued in the order in which
\* the messages were sent (the order of their msg_seqnum), whatever the
\* order in which the packets arrive.
C2_RecvInSendOrder ==
    \A c \in EthConnIds : eth.conns[c].attribute = "RO" =>
        \A i, j \in DOMAIN EthEvents :
            (/\ i < j
             /\ EthEvents[i].user_conn_id = eth.conns[c].user_conn_id
             /\ EthEvents[j].user_conn_id = eth.conns[c].user_conn_id)
            => EthEvents[i].seqnum <= EthEvents[j].seqnum

\* C3: on a reliable connection a message whose msg_seqnum has already been
\* delivered produces no further RECV event: no two events of the
\* connection come from the same sequence number.
C3_NoDuplicateRecv ==
    \A c \in EthConnIds : eth.conns[c].attribute \in {"RO", "RU"} =>
        \A i, j \in DOMAIN EthEvents :
            (/\ i < j
             /\ EthEvents[i].user_conn_id = eth.conns[c].user_conn_id
             /\ EthEvents[j].user_conn_id = eth.conns[c].user_conn_id)
            => EthEvents[i].seqnum # EthEvents[j].seqnum

\* the packet passes every check of ccieth_recv_msg and its connection is READY
EthMsgForReady(skb, ifp) ==
    /\ skb.avail = "all" /\ skb.type = "MSG"
    /\ skb.dst_ep_id = EthEpId /\ ifp = EthIfp
    /\ skb.msg_len <= MaxSendSize /\ Len(skb.data) >= skb.msg_len
    /\ skb.dst_conn_id \in EthConnIds
    /\ eth.conns[skb.dst_conn_id].status = "READY"

\* C7: when a MSG packet for a READY connection arrives and the free-event
\* list is empty, the receiver sends an RNR NACK and queues no RECV event.
C7_RnrNackWhenNoFreeEvent ==
    [][(/\ eth'.last # eth.last
        /\ eth.cpu[eth'.last.cpu].pc = "idle"
        /\ EthMsgForReady(eth'.last.skb, eth'.last.ifp)
        /\ eth.free_event_list = <<>>)
       => (eth'.sent # eth.sent /\ eth'.event_list = eth.event_list)]_vars

(***************************************************************************)
(* Further properties of the sock send side.                               *)
(***************************************************************************)
\* C11: a CONNECT event whose outcome is not success (the request timed out)
\* has a NULL connection field; only the event of a successful connect
\* carries the connection.
C11_ConnectEventConnection ==
    \A x \in Range(Evts) :
        (txs[x].msg_type = "CONN_REQUEST" /\ txs[x].etype = "CONNECT_TIMEOUT")
        => txs[x].conn = NULL

\* the timeout a send is entitled to: the connection's when it is set
\* (non-zero), the endpoint's otherwise
SendTimeout(x) == QueuedTimeout(ep_tx_timeout, conns[txs[x].conn].tx_timeout)

\* C12: a send is completed with CCI_ETIMEDOUT only when it has been resent
\* for as long as the timeout that applies to it (the connection's if
\* non-zero, else the endpoint's), on the pending list as on the queued
\* list; a connection timeout of 0 causes no immediate timeout.
C12_SendTimeoutSelection ==
    \A x \in TxIds :
        (IsSend(x) /\ txs[x].status = "ETIMEDOUT")
        => txs[x].resends * SOCK_RESEND_TIME >= SendTimeout(x)

\* C13: progress never blocks: a thread that has entered sock_progress_sends
\* is never left in the lock of line 1010 or in the loop of line 1020,
\* neither of which it can leave.
C13_ProgressNeverBlocks ==
    \A t \in Threads : ~Stuck(t)

\* the place of a lock in the order device, endpoint, connection
LockRank(lock) ==
    CASE lock = "sdev" -> 1
      [] lock \in {"ep", "sep"} -> 2
      [] lock = "sconn" -> 3

\* C14: whenever a thread holds more than one lock, it acquired them in the
\* order device lock, endpoint lock, connection lock: a lock acquired later
\* is of a later rank (or is the lock the thread holds already, locked again).
C14_LockOrder ==
    \A t \in Threads : \A i, j \in DOMAIN th[t].locks :
        i < j => \/ LockRank(th[t].locks[i]) < LockRank(th[t].locks[j])
                 \/ th[t].locks[i] = th[t].locks[j]

\* a progress pass holds the device lock and an endpoint lock at once, to
\* queue the event of a TX
C14_Witness ==
    \E t \in Threads :
        /\ th[t].pc \in {"pp_loop", "pq_loop"}
        /\ th[t].locks \in {<<"sdev", "ep">>, <<"sdev", "sep">>}

\* TX x carries a send that sock_sendv has put on the device's queued list
Accepted(x) == IsSend(x) /\ txs[x].enq > 0

\* C15: the sends accepted on one reliable (RO or RU) connection carry the
\* sequence numbers the connection has given out, each number once: a send's
\* number is below the connection's next sequence number, and no two sends of
\* the connection have the same number, whichever threads issued them.
C15_ConsecutiveSeq ==
    \A x, y \in TxIds :
        (Accepted(x) /\ Accepted(y) /\ Reliable(txs[x].conn)
         /\ txs[x].conn = txs[y].conn)
        => /\ txs[x].seq < conns[txs[x].conn].seq
           /\ x # y => txs[x].seq # txs[y].seq

(***************************************************************************)
(* Properties of the ID allocator.                                         *)
(***************************************************************************)
\* C16: the IDs sock_get_id hands out on one endpoint, with no sock_put_id
\* between the calls, are pairwise different, for offsets below 31 and for
\* offsets of 31 and above.
C16_IdsUnique ==
    \A i, j \in DOMAIN ids.given :
        i # j => ids.given[i] # ids.given[j]

\* C17: sock_get_id never hands out the ID 0.
C17_IdZeroReserved ==
    \A i \in DOMAIN ids.given : ids.given[i] # 0

(***************************************************************************)
(* Properties of the entry points and of plugin verification.              *)
(***************************************************************************)
\* C18: return_event on a CONNECT_REQUEST event that has been passed to
\* neither accept nor reject returns CCI_EINVAL; once the event has been
\* passed to accept or reject, return_event returns CCI_SUCCESS.
C18_ReturnEventOfRequest ==
    [][\A t \in Threads :
          (th[t].pc = "idle" /\ th'[t].op = "return_event")
          => th'[t].ret = IF api.req = "new" THEN "CCI_EINVAL" ELSE "CCI_SUCCESS"]_vars

\* every function the verification looks at is there and the version is the
\* supported one
Conforming(plugin) ==
    /\ \A o \in CtpOperations : plugin.ops[o] # NULL
    /\ plugin.version = CCI_CTP_API_VERSION

EthReturnsAtOnce ==
    /\ eth'.last # eth.last
    /\ eth.cpu[eth'.last.cpu].pc = "idle"
    /\ eth'.last.handed # "skb_share_check"
    /\ eth'.last.skb.avail = "all" /\ eth'.last.skb.type = "MSG"

\* in this step the cpu takes an event off the free list for a packet
EthTakesEvent(cpu) ==
    eth.cpu[cpu].pc = "idle" /\ eth'.cpu[cpu].pc = "setup"

\* in this step the cpu queues the event it has taken and returns
EthQueuesEvent(cpu) ==
    eth.cpu[cpu].pc = "setup" /\ eth'.cpu[cpu].pc = "idle"

\* the lists of the endpoint and the events are as they were
EthListsUnchanged ==
    /\ eth'.free_event_list = eth.free_event_list
    /\ eth'.event_list = eth.event_list
    /\ eth'.events = eth.events

\* one of the five cases in which a MSG packet is refused
EthBadMsg(skb, ifp) ==
    \/ skb.dst_ep_id # EthEpId
    \/ ifp # EthIfp
    \/ skb.msg_len > MaxSendSize
    \/ Len(skb.data) < skb.msg_len
    \/ skb.dst_conn_id \notin EthConnIds

\* C26: a valid MSG packet for a READY connection, with a free event: exactly
\* one event leaves the head of the free-event list and is appended to the
\* tail of the event list with type RECV, data_length = msg_len and the
\* connection's user_conn_id, and the receive returns 0.  Such a packet is
\* refused only when the free-event list is empty.
C26_RecvMsgQueuesOneEvent ==
    [][/\ (EthReturnsAtOnce /\ EthMsgForReady(eth'.last.skb, eth'.last.ifp))
            => eth.free_event_list = <<>>
       /\ \A cpu \in EthCpus :
            /\ EthTakesEvent(cpu) =>
                 /\ eth.free_event_list # <<>>
                 /\ eth'.free_event_list = Tail(eth.free_event_list)
                 /\ eth'.cpu[cpu].event = Head(eth.free_event_list)
                 /\ eth'.event_list = eth.event_list
                 /\ eth'.events = eth.events
            /\ EthQueuesEvent(cpu) =>
                 LET me == eth.cpu[cpu] IN
                 /\ eth'.event_list = Append(eth.event_list, me.event)
                 /\ eth'.free_event_list = eth.free_event_list
                 /\ me.event \notin Range(eth.free_event_list)
                 /\ me.event \notin Range(eth.event_list)
                 /\ eth'.events[me.event].type = "RECV"
                 /\ eth'.events[me.event].data_length = me.skb.msg_len
                 /\ eth'.events[me.event].user_conn_id
                      = eth.conns[me.conn].user_conn_id
                 /\ \A e \in EthEventIds \ {me.event} :
                      eth'.events[e] = eth.events[e]
                 /\ eth'.last.ret = "0" /\ eth'.last.skb = me.skb]_vars

\* a second RECV event has been appended behind the first
C26_Witness ==
    /\ Len(eth.event_list) = 2
    /\ eth.last.ret = "0" /\ eth.last.handed = "none"
    /\ EthMsgForReady(eth.last.skb, eth.last.ifp)
    /\ EthEvents[2].type = "RECV"
    /\ EthEvents[2].data_length = eth.last.skb.msg_len
    /\ EthEvents[2].user_conn_id
         = eth.conns[eth.last.skb.dst_conn_id].user_conn_id
    /\ EthEvents[1].user_conn_id # EthEvents[2].user_conn_id

\* C27: a MSG packet whose endpoint ID is unknown, whose endpoint is attached
\* to another interface, whose msg_len exceeds max_send_size, which is
\* shorter than header plus msg_len, or whose connection ID is unknown, is
\* dropped with -EINVAL; no event is taken or queued, and the free-event
\* list, the event list and every connection stay as they were.
C27_BadMsgDropped ==
    [][/\ (EthReturnsAtOnce /\ EthBadMsg(eth'.last.skb, eth'.last.ifp))
            => /\ eth'.last.ret = "-EINVAL"
               /\ eth'.last.freed = 1 /\ eth'.last.handed = "none"
               /\ EthListsUnchanged
               /\ eth'.conns = eth.conns
       /\ \A cpu \in EthCpus :
            EthTakesEvent(cpu)
                => ~EthBadMsg(eth'.cpu[cpu].skb, eth'.cpu[cpu].ifp)]_vars

\* a packet that is long enough but whose msg_len exceeds max_send_size has
\* been dropped while an event was queued
C27_Witness ==
    /\ eth.last.ret = "-EINVAL"
    /\ eth.last.skb.avail = "all" /\ eth.last.skb.type = "MSG"
    /\ eth.last.skb.dst_ep_id = EthEpId /\ eth.last.ifp = EthIfp
    /\ eth.last.skb.msg_len > MaxSendSize
    /\ Len(eth.last.skb.data) >= eth.last.skb.msg_len
    /\ eth.event_list # <<>>

\* the packet passes the checks of the endpoint, the interface, the length
\* and the connection ID, and its connection is not READY
EthMsgForNotReady(skb, ifp) ==
    /\ ~EthBadMsg(skb, ifp)
    /\ eth.conns[skb.dst_conn_id].status # "READY"

\* C28: a MSG packet for a connection that is not READY never makes a RECV
\* event at arrival.  For a REQUESTED connection with attribute UU it is put
\* on the connection's deferred-receive list and the receive returns 0; in
\* every other case it is dropped (freed, -EINVAL, nothing deferred).
C28_NotReadyNeverReceives ==
    [][/\ (EthReturnsAtOnce /\ EthMsgForNotReady(eth'.last.skb, eth'.last.ifp))
            => LET c == eth'.last.skb.dst_conn_id IN
               /\ EthListsUnchanged
               /\ IF eth.conns[c].status = "REQUESTED"
                     /\ eth.conns[c].attribute = "UU"
                  THEN /\ eth'.last.ret = "0"
                       /\ eth'.last.freed = 0
                       /\ eth'.last.handed = "ccieth_conn_uu_defer_recv_msg"
                       /\ eth'.conns
                            = [eth.conns EXCEPT ![c].deferred = @ + 1]
                  ELSE /\ eth'.last.ret = "-EINVAL"
                       /\ eth'.last.freed = 1
                       /\ eth'.last.handed = "none"
                       /\ eth'.conns = eth.conns
       /\ \A cpu \in EthCpus :
            EthTakesEvent(cpu)
                => eth.conns[eth'.cpu[cpu].conn].status = "READY"]_vars

\* a packet for the REQUESTED UU connection has been deferred
C28_Witness ==
    /\ eth.last.handed = "ccieth_conn_uu_defer_recv_msg"
    /\ eth.last.ret = "0"
    /\ eth.conns[eth.last.skb.dst_conn_id].status = "REQUESTED"
    /\ eth.conns[eth.last.skb.dst_conn_id].attribute = "UU"
    /\ eth.conns[eth.last.skb.dst_conn_id].deferred = 1

\* C25: whenever the endpoint's event list goes from empty to non-empty, the
\* receive path signals the endpoint's wake handle.
C25_WakeOnFirstEvent ==
    [][(eth.event_list = <<>> /\ eth'.event_list # <<>>)
         => eth'.woken = eth.woken + 1]_vars


(***************************************************************************)
(* Initialisation.                                                         *)
(***************************************************************************)
\* C24: init called again after it has returned successfully is a no-op: the
\* device list, the device count and the queued and pending lists of the
\* device are as they were before the call.
C24_InitIdempotent ==
    [][sglobals'.inits # sglobals.inits
         => /\ sglobals'.devices = sglobals.devices
            /\ sglobals'.count = sglobals.count
            /\ ListOf(dq', QueuedHead) = ListOf(dq, QueuedHead)
            /\ ListOf(dq', PendingHead) = ListOf(dq, PendingHead)]_vars


(***************************************************************************)
(* The unreliable path and the argument checks of sock_sendv.              *)
(***************************************************************************)
\* C29: a send on a UU connection whose direct write succeeds returns
\* CCI_SUCCESS after that one write: it takes no TX descriptor and leaves
\* nothing on the queued or pending list.
C29_DirectSendReturns ==
    [][\A t \in Threads :
         (/\ th[t].pc = "sv_direct" /\ th'[t] # th[t]
          /\ conns[th[t].conn].attribute = CCI_CONN_ATTR_UU
          /\ wire'.direct = wire.direct + 1)
         => /\ th'[t].pc = "ret" /\ th'[t].ret = "CCI_SUCCESS"
            /\ th'[t].tx = NULL
            /\ dq' = dq]_vars

\* C30: sock_sendv checks its arguments before it touches any state: a
\* segment with a NULL pointer and a length gives CCI_EINVAL, a total of
\* header_len and data lengths above max_send_size gives CCI_EMSGSIZE, and a
\* call refused in either way takes no TX, consumes no sequence number and
\* queues nothing.  So no call goes on with more bytes than max_send_size.
C30_SendvValidatesArguments ==
    [][\A t \in Threads :
         (th[t].pc = "idle" /\ th'[t].op = "sendv")
         => /\ ~th'[t].overrun
            /\ th'[t].pc = "ret"
                 => /\ th'[t].ret \in {"CCI_EINVAL", "CCI_EMSGSIZE"}
                    /\ th'[t].tx = NULL
                    /\ UNCHANGED <<txs, dq, eq, conns, wire, nissued>>]_vars


(***************************************************************************)
(* The bytes of a message, sent and received.                              *)
(***************************************************************************)
\* C23: round trip: what the receiver finds behind the headers of a datagram
\* is the message that was sent, with its length and its bytes, for every
\* message length from 0 to max_send_size.
C23_RoundTrip ==
    \A x \in TxIds :
        Len(wire.dgram[x]) > 0
            => /\ Len(Payload(wire.dgram[x], wire.reliable[x])) = Len(wire.msg[x])
               /\ Payload(wire.dgram[x], wire.reliable[x]) = wire.msg[x]

(***************************************************************************)
(* sock_connect calls that fail.                                           *)
(***************************************************************************)
\* the step in which thread t's sock_connect returns a status that is not
\* CCI_SUCCESS
ConnectFails(t) ==
    /\ th[t].pc \in {"idle", "cn_gettx"}
    /\ th'[t].pc = "ret"
    /\ th'[t].op = "connect"
    /\ th'[t].ret # "CCI_SUCCESS"

\* C31: a sock_connect that returns a status other than CCI_SUCCESS leaves the
\* endpoint as it was: no TX has left the idle list, no ID bit is set, nothing
\* is added to the queued list, and the connection the call allocated is
\* released.
C31_FailedConnectLeavesNoTrace ==
    [][\A t \in Threads :
         ConnectFails(t)
         => /\ UNCHANGED <<dq, txs, ids>>
            /\ th[t].pc = "idle" => conns' = conns
            /\ th'[t].conn # NULL => ~conns'[th'[t].conn].alloc]_vars

(***************************************************************************)
(* The port of sock_bind.                                                  *)
(***************************************************************************)
\* C32: sock_bind never succeeds for a port that does not fit in 16 bits (it
\* is refused with CCI_ERANGE unless the call fails for another reason), so
\* the port of a socket it has bound is the port that was asked for.
C32_BindPortNotTruncated ==
    svc.last.ret # "none"
        => /\ svc.last.port > 2^PortBits - 1 => svc.last.ret # "CCI_SUCCESS"
           /\ svc.last.ret = "CCI_SUCCESS" => svc.last.sin_port = svc.last.port

(***************************************************************************)
(* The lists a TX descriptor is on.                                        *)
(***************************************************************************)
\* the value of tx->state that goes with each list
StateOfList(head) ==
    CASE head = IdleHead -> "IDLE"
      [] head = QueuedHead -> "QUEUED"
      [] head = PendingHead -> "PENDING"
      [] head = EvtsHead -> "COMPLETED"

\* what a walk of the list at head visits: idle_txs, queued and pending are
\* linked through tx->dentry, ep->evts through evt->entry
Members(head) == IF head = EvtsHead THEN ListOf(eq, head) ELSE ListOf(dq, head)

\* the lists on which a walk meets TX x
OnLists(x) == {head \in Heads : x \in Range(Members(head))}

\* a call holds the TX between two lists: sock_sendv or sock_connect after the
\* TAILQ_REMOVE from idle_txs and before the insertion at lines 1208-1211
\* (682-685), sock_progress_queued between lines 1009 and 1011
InHand(x) ==
    \E t \in Threads :
        \/ th[t].tx = x /\ th[t].pc \in {"sv_seq", "enqueue"}
        \/ th[t].cur = x /\ th[t].pc = "pq_relock"

\* a descriptor of the pool: it is on a list or a call has filled it in (the
\* pool may hold fewer than NumTx descriptors)
InPool(x) == OnLists(x) # {} \/ txs[x].msg_type # "NONE"

\* C33: every TX descriptor that no call holds between two lists is on exactly
\* one of idle_txs, queued, pending and ep->evts, once, and tx->state names
\* that list.
C33_TxOnExactlyOneList ==
    \A x \in TxIds :
        (InPool(x) /\ ~InHand(x))
            => \E head \in Heads :
                  /\ OnLists(x) = {head}
                  /\ Occurrences(Members(head), x) = 1
                  /\ txs[x].state = StateOfList(head)

(***************************************************************************)
(* A completed TX.                                                         *)
(***************************************************************************)
\* the TXs on sdev->pending
Pending == Range(ListOf(dq, PendingHead))

\* C34: a TX that has been completed (its event queued, or the descriptor of
\* a SILENT send back on the idle list) is not handed to sendto() again and is
\* not put on the pending list; a TX that times out on the queued list is not
\* sent in that pass.
C34_CompletedTxNotSentAgain ==
    [][\A x \in TxIds :
         /\ wire'.late[x] = wire.late[x]
         /\ (x \in Range(Evts) /\ x \notin Pending)
                => x \notin Range(ListOf(dq', PendingHead))]_vars

(***************************************************************************)
(* sdev->lock around the progress functions.                               *)
(***************************************************************************)
\* thread t is at a pthread_mutex_lock(&sdev->lock) and holds that lock
LocksAgain(t) == th[t].pc = "pq_relock" /\ sdev_lock.owner = t

\* thread t is in none of the functions that lock sdev->lock
OutsideProgress(t) == th[t].pc \in {"idle", "ret", "after_progress"}

\* C35: no thread asks for sdev->lock while it holds it, and a thread that
\* has left sock_progress_pending and sock_progress_queued does not hold it:
\* the lock is free for the next caller of send or connect.
C35_DeviceLockReleased ==
    \A t \in Threads :
        /\ ~LocksAgain(t)
        /\ OutsideProgress(t) => sdev_lock.owner # t

(***************************************************************************)
(* The wait of a BLOCKING send.                                            *)
(***************************************************************************)
\* thread t is in a sock_sendv with CCI_FLAG_BLOCKING on a reliable connection
\* and has its TX
InBlockingSend(t) ==
    /\ th[t].op = "sendv" /\ th[t].pc # "ret" /\ th[t].tx # NULL
    /\ Reliable(th[t].conn) /\ Blocking(th[t].tx)

\* C36: every reliable send issued with CCI_FLAG_BLOCKING returns in the end
\* (unless the process has faulted), with or without CCI_FLAG_SILENT.
C36_BlockingSendTerminates ==
    \A t \in Threads :
        InBlockingSend(t) ~> (th[t].pc = "ret" \/ crashed # "no")

(***************************************************************************)
(* The events of the receiving endpoint.                                   *)
(***************************************************************************)
\* the CPUs in ccieth__recv_msg that have taken event ev off the free list
\* and not yet put it on the event list
EthLeases(ev) == {cpu \in EthCpus : eth.cpu[cpu].pc = "setup" /\ eth.cpu[cpu].event = ev}

\* the places that hold event ev: entries of the free list, entries of the
\* event list, receivers
EthHolders(ev) ==
    Occurrences(eth.free_event_list, ev) + Occurrences(eth.event_list, ev)
        + Cardinality(EthLeases(ev))

\* C37: every event of the endpoint has exactly one holder, the free list, the
\* event list or a receiver that has taken it, so the events on the two lists
\* and in the receivers' hands are NumEvents in all, whatever packets arrive
\* and whether they are received or refused.
C37_EventLeaseConserved ==
    /\ \A ev \in EthEventIds : EthHolders(ev) = 1
    /\ Len(eth.free_event_list) + Len(eth.event_list)
           + Cardinality({cpu \in EthCpus : eth.cpu[cpu].pc = "setup"}) = NumEvents

\* an arrival has just failed for want of a free event while one event is in
\* a receiver's hands and another on the event list
C37_Witness ==
    /\ eth.last.ret = "-ENOMEM"
    /\ \E cpu \in EthCpus : eth.cpu[cpu].pc = "setup"
    /\ eth.event_list # <<>>

\* C38: with several CPUs receiving MSG packets for the endpoint at once, no
\* event is in the hands of two receivers, no event is on the event list
\* twice, an event in a receiver's hands is on neither list, and every event
\* on the event list has its type, its length and its connection ID set: a
\* receiver fills its event in before it appends it.
C38_ConcurrentRecvKeepsEventsApart ==
    /\ \A ev \in EthEventIds :
          /\ Cardinality(EthLeases(ev)) <= 1
          /\ Occurrences(eth.event_list, ev) <= 1
          /\ EthLeases(ev) # {}
                => ev \notin Range(eth.event_list) \cup Range(eth.free_event_list)
    /\ \A i \in DOMAIN EthEvents :
          /\ EthEvents[i].type = "RECV"
          /\ EthEvents[i].data_length = Len(EthEvents[i].data)
          /\ \E c \in EthConnIds :
                EthEvents[i].user_conn_id = eth.conns[c].user_conn_id

\* two CPUs are in ccieth__recv_msg at once, each with an event of its own,
\* for packets of the same endpoint
C38_Witness ==
    \E c, d \in EthCpus :
        /\ c # d
        /\ eth.cpu[c].pc = "setup" /\ eth.cpu[d].pc = "setup"
        /\ eth.cpu[c].event # eth.cpu[d].event
        /\ eth.cpu[c].skb.dst_ep_id = eth.cpu[d].skb.dst_ep_id

(***************************************************************************)
(* The packet buffer of a call of ccieth_recv.                             *)
(***************************************************************************)
\* the times the packet of the call that returned last has been consumed:
\* calls of dev_kfree_skb, and the function that took the packet over
EthConsumed ==
    eth.last.freed + (IF eth.last.handed = "none" THEN 0 ELSE 1)

\* the type of the last call's packet could be read and skb_share_check gave
\* a packet
EthTypeRead ==
    eth.last.skb.avail # "none" /\ eth.last.handed # "skb_share_check"

\* C39: the packet of every call of ccieth_recv that has returned was
\* consumed exactly once: freed once, or handed to one function that takes it
\* over (ccieth_defer_connect_recv for the four CONNECT types, the deferred
\* receive of a UU connection) and then not freed; a packet of unknown type
\* was freed and -EINVAL returned; rcu_read_unlock was called as often as
\* rcu_read_lock, at most once.
C39_PacketConsumedOnce ==
    eth.last.ret # "none"
        => /\ EthConsumed = 1
           /\ (EthTypeRead /\ eth.last.skb.type \in ConnectTypes)
                  <=> eth.last.handed = "ccieth_defer_connect_recv"
           /\ (EthTypeRead /\ eth.last.skb.type \notin ConnectTypes \cup {"MSG"})
                  => (eth.last.freed = 1 /\ eth.last.ret = "-EINVAL")
           /\ eth.last.handed = "ccieth_conn_uu_defer_recv_msg"
                  => (eth.last.skb.type = "MSG" /\ eth.last.ret = "0")
           /\ eth.last.rcu_unlocked = eth.last.rcu_locked
           /\ eth.last.rcu_locked <= 1

\* a MSG packet was refused under the RCU read lock: freed, and the lock
\* released
C39_Witness ==
    /\ eth.last.skb.type = "MSG"
    /\ eth.last.ret = "-EINVAL"
    /\ eth.last.freed = 1
    /\ eth.last.rcu_locked = 1

(***************************************************************************)
(* IDs given back.                                                         *)
(***************************************************************************)
\* the bit of sep->ids that stands for ID id
IdBit(id) == (id \div SOCK_BLOCK_SIZE) * WordBits + (id % SOCK_BLOCK_SIZE)

\* C40: sock_put_id on an ID that sock_get_id has returned passes its
\* assertion, clears the bit of that ID and no other, leaves every other ID
\* allocated, and a later sock_get_id can return the ID again; for every
\* offset of the ID in its block.
C40_PutIdGivesIdBack ==
    [][Len(ids'.put) > Len(ids.put)
         => LET id == ids'.put[Len(ids'.put)] IN
            /\ crashed' = "no"
            /\ ids'.bits = ids.bits \ {IdBit(id)}
            /\ Len(ids'.given) = Len(ids.given) - 1
            /\ \A other \in Range(ids.given) \ {id} : other \in Range(ids'.given)
            /\ sock_get_id(ids', id).free]_vars

====
